---- MODULE Spec2Model ----
(***************************************************************************)
(* A model of pyasn1's BER decoder (pyasn1/codec/ber/decoder.py).          *)
(*                                                                         *)
(* The decoder is a stack of Python generators.  A generator either        *)
(* yields its result, raises, or yields a SubstrateUnderrunError marker    *)
(* and is later resumed at the very read that fell short.  Every layer     *)
(* passes markers upwards, so a marker always reaches the consumer of the  *)
(* top-level iterator.  The model therefore threads one context record     *)
(* through the decoders:                                                   *)
(*    pos, markedPosition   the substrate's cursor and its marked position *)
(*    out         the items the top-level iterator has yielded so far      *)
(*    log         one entry per completed single-item decode               *)
(*    tagCache, tagSetCache   the decoder instance's caches                *)
(* and a substrate record [data, hist]: the octets of the stream and, for  *)
(* each resumption of the iterator so far, how many octets were buffered   *)
(* at that resumption.  Since each resumption ends with exactly one item   *)
(* yielded, the code that runs after Len(out) items runs against           *)
(* hist[Len(out) + 1].  A decoder operator returns [k, v, c]:              *)
(*    k = "ok"     the generator's last yielded item is v                  *)
(*    k = "susp"   the generator is suspended after yielding a marker and  *)
(*                 the iterator has not been resumed again                 *)
(*    k = "raise"  the generator raised exception v                        *)
(***************************************************************************)
EXTENDS Integers, Sequences, FiniteSets, TLC

VARIABLES substrate, avail, hist, asn1Spec, supportIndefLength, options, mode,
          status, out, pos, markedPosition, log, tagCache, raised, result

vars == <<substrate, avail, hist, asn1Spec, supportIndefLength, options, mode,
          status, out, pos, markedPosition, log, tagCache, raised, result>>

----------------------------------------------------------------------------
(* Bounds of the model *)

MaxChildren == 2

MaxTail == 1

----------------------------------------------------------------------------
(* Items that travel through the generators *)

noValue == [type |-> "noValue"]

endOfOctets == [type |-> "endOfOctets"]

\* The marker a short read yields in place of data; pos is where the cursor
\* stood when it was yielded
SubstrateUnderrunMarker(at) == [type |-> "SubstrateUnderrunError", pos |-> at]

PyAsn1Error(msg) == [type |-> "PyAsn1Error", msg |-> msg]

SubstrateUnderrunError(msg) == [type |-> "SubstrateUnderrunError", msg |-> msg]

AttributeError(msg) == [type |-> "AttributeError", msg |-> msg]

IndexError(msg) == [type |-> "IndexError", msg |-> msg]

TypeError(msg) == [type |-> "TypeError", msg |-> msg]

Ok(v, c) == [k |-> "ok", v |-> v, c |-> c]

Susp(c) == [k |-> "susp", v |-> noValue, c |-> c]

Raise(e, c) == [k |-> "raise", v |-> e, c |-> c]

\* A local variable of the code: K runs with the value v bound to its name
With(v, K(_)) == K(v)

\* for item in gen: ...: the code past the loop runs, on the generator's last
\* item, only when the generator neither raised nor is suspended
Then(r, K(_)) == IF r.k # "ok" THEN r ELSE K(r)

\* isinstance(item, SubstrateUnderrunError) on an item a generator yielded
IsUnderrun(item) == item.type = "SubstrateUnderrunError"

\* isinstance(item, base.Asn1Item)
IsAsn1Item(item) == item.type \notin {"SubstrateUnderrunError", "noValue", "endOfOctets", "None"}

----------------------------------------------------------------------------
(* The streaming substrate: pyasn1/codec/streaming.py *)

\* Octets buffered at the resumption the generators are currently running in
Buffered(s, c) == s.hist[Len(c.out) + 1]

\* The iterator has yielded as many items as it was resumed: it is suspended
Suspended(s, c) == Len(c.out) >= Len(s.hist)

\* read(size): all or nothing.  A short read yields a marker and leaves the
\* cursor where it was; the resumed generator retries the same read.
RECURSIVE readFromStream(_, _, _)
readFromStream(s, c, size) ==
    IF Suspended(s, c) THEN Susp(c)
    ELSE IF c.pos + size <= Buffered(s, c)
    THEN Ok(SubSeq(s.data, c.pos + 1, c.pos + size), [c EXCEPT !.pos = @ + size])
    ELSE readFromStream(s, [c EXCEPT !.out = Append(@, SubstrateUnderrunMarker(c.pos))], size)

\* at_eof(): no octet is buffered past the cursor; nothing is consumed
isEndOfStream(s, c) == c.pos >= Buffered(s, c)

\* read(-1): whatever is buffered past the cursor
readRest(s, c) == SubSeq(s.data, c.pos + 1, Buffered(s, c))

----------------------------------------------------------------------------
(* Tags and tag sets: pyasn1/type/tag.py *)

tagClassUniversal == 0

tagClassApplication == 64

tagClassContext == 128

tagClassPrivate == 192

tagFormatSimple == 0

tagFormatConstructed == 32

Tag(tagClass, tagFormat, tagId) ==
    [tagClass |-> tagClass, tagFormat |-> tagFormat, tagId |-> tagId]

\* Tag.__eq__ and Tag.__hash__ look at (tagClass, tagId): the format bit does
\* not take part, so 0x24 finds the OctetString entry of the tag map.
TagKey(t) == <<t.tagClass, t.tagId>>

\* TagSet.__eq__ and TagSet.__hash__: the tuple of the tags' keys
TagSetKey(ts) == [i \in 1..Len(ts) |-> TagKey(ts[i])]

TagSetEq(a, b) == TagSetKey(a) = TagSetKey(b)

\* A tag set with the single tag t, TagSet((), t)
TagSetOf(t) == <<t>>

\* lastTag + tagSet (TagSet.__radd__): the new tag goes in front
PrependTag(t, ts) == <<t>> \o ts

UniversalTagSet(fmt, id) == TagSetOf(Tag(tagClassUniversal, fmt, id))

----------------------------------------------------------------------------
(* Values and schema objects: pyasn1/type/univ.py, char.py, useful.py *)

\* asn1Spec=None
NoSpec == [typeId |-> "None"]

\* The result of _decodeComponentsSchemaless when no child was decoded
NoneObject == [type |-> "None"]

\* protoComponent.clone(..., tagSet=tagSet) and asn1Spec.clone(value): a value
\* of the type, carrying the tag set and the type's payload fields
Asn1Value(type, tagSet, payload) == [type |-> type, tagSet |-> tagSet] @@ payload

\* The universal tag of each built-in type (its tagSet attribute)
BaseTagSet(type) ==
    CASE type = "Boolean" -> UniversalTagSet(tagFormatSimple, 1)
      [] type = "Integer" -> UniversalTagSet(tagFormatSimple, 2)
      [] type = "BitString" -> UniversalTagSet(tagFormatSimple, 3)
      [] type = "OctetString" -> UniversalTagSet(tagFormatSimple, 4)
      [] type = "Null" -> UniversalTagSet(tagFormatSimple, 5)
      [] type = "ObjectIdentifier" -> UniversalTagSet(tagFormatSimple, 6)
      [] type = "ObjectDescriptor" -> UniversalTagSet(tagFormatSimple, 7)
      [] type = "Real" -> UniversalTagSet(tagFormatSimple, 9)
      [] type = "Enumerated" -> UniversalTagSet(tagFormatSimple, 10)
      [] type = "UTF8String" -> UniversalTagSet(tagFormatSimple, 12)
      [] type \in {"Sequence", "SequenceOf"} -> UniversalTagSet(tagFormatConstructed, 16)
      [] type \in {"Set", "SetOf"} -> UniversalTagSet(tagFormatConstructed, 17)
      [] type = "NumericString" -> UniversalTagSet(tagFormatSimple, 18)
      [] type = "PrintableString" -> UniversalTagSet(tagFormatSimple, 19)
      [] type = "TeletexString" -> UniversalTagSet(tagFormatSimple, 20)
      [] type = "VideotexString" -> UniversalTagSet(tagFormatSimple, 21)
      [] type = "IA5String" -> UniversalTagSet(tagFormatSimple, 22)
      [] type = "UTCTime" -> UniversalTagSet(tagFormatSimple, 23)
      [] type = "GeneralizedTime" -> UniversalTagSet(tagFormatSimple, 24)
      [] type = "GraphicString" -> UniversalTagSet(tagFormatSimple, 25)
      [] type = "VisibleString" -> UniversalTagSet(tagFormatSimple, 26)
      [] type = "GeneralString" -> UniversalTagSet(tagFormatSimple, 27)
      [] type = "UniversalString" -> UniversalTagSet(tagFormatSimple, 28)
      [] type = "BMPString" -> UniversalTagSet(tagFormatSimple, 30)
      [] OTHER -> <<>>

OctetStringTypes ==
    {"OctetString", "UTF8String", "NumericString", "PrintableString",
     "TeletexString", "VideotexString", "IA5String", "GraphicString",
     "VisibleString", "GeneralString", "UniversalString", "BMPString",
     "ObjectDescriptor", "GeneralizedTime", "UTCTime"}

----------------------------------------------------------------------------
(* The payload decoder instances and the two dispatch tables *)

PayloadDecoder(cls, proto) ==
    [cls |-> cls, protoComponent |-> proto,
     protoRecordComponent |-> "None", protoSequenceComponent |-> "None"]

ConstructedDecoder(proto, record, sequence) ==
    [cls |-> "ConstructedPayloadDecoderBase", protoComponent |-> proto,
     protoRecordComponent |-> record, protoSequenceComponent |-> sequence]

NoDecoder == PayloadDecoder("None", "None")

rawPayloadDecoder == PayloadDecoder("RawPayloadDecoder", "Any")

defaultRawDecoder == PayloadDecoder("AnyPayloadDecoder", "Any")

\* The decoder TAG_MAP holds under a type's tag set
DecoderOfType(type) ==
    CASE type = "Integer" -> PayloadDecoder("IntegerPayloadDecoder", "Integer")
      [] type = "Enumerated" -> PayloadDecoder("IntegerPayloadDecoder", "Integer")
      [] type = "Boolean" -> PayloadDecoder("BooleanPayloadDecoder", "Boolean")
      [] type = "BitString" -> PayloadDecoder("BitStringPayloadDecoder", "BitString")
      [] type = "Null" -> PayloadDecoder("NullPayloadDecoder", "Null")
      [] type = "ObjectIdentifier" ->
             PayloadDecoder("ObjectIdentifierPayloadDecoder", "ObjectIdentifier")
      [] type = "Real" -> PayloadDecoder("RealPayloadDecoder", "Real")
      [] type = "Sequence" -> ConstructedDecoder("None", "Sequence", "SequenceOf")
      [] type = "Set" -> ConstructedDecoder("None", "Set", "SetOf")
      [] type = "Choice" -> PayloadDecoder("ChoicePayloadDecoder", "Choice")
      [] type \in OctetStringTypes -> PayloadDecoder("OctetStringPayloadDecoder", type)
      [] OTHER -> NoDecoder

TagMapTypes ==
    {"Integer", "Boolean", "BitString", "Null", "ObjectIdentifier", "Enumerated",
     "Real", "Sequence", "Set", "Choice"} \cup OctetStringTypes

\* tagMap[tagSet]; NoDecoder stands for the KeyError
TAG_MAP(tagSet) ==
    LET hits == {t \in TagMapTypes : TagSetEq(BaseTagSet(t), tagSet)}
    IN IF hits = {} THEN NoDecoder ELSE DecoderOfType(CHOOSE t \in hits : TRUE)

\* typeMap[typeId]: the ambiguous types first, then every unambiguous type of
\* TAG_MAP under its own type id
TYPE_MAP(typeId) ==
    CASE typeId = "Set" -> ConstructedDecoder("Set", "Set", "SetOf")
      [] typeId = "SetOf" -> ConstructedDecoder("SetOf", "Set", "SetOf")
      [] typeId = "Sequence" -> ConstructedDecoder("Sequence", "Sequence", "SequenceOf")
      [] typeId = "SequenceOf" -> ConstructedDecoder("SequenceOf", "Sequence", "SequenceOf")
      [] typeId = "Choice" -> PayloadDecoder("ChoicePayloadDecoder", "Choice")
      [] typeId = "Any" -> PayloadDecoder("AnyPayloadDecoder", "Any")
      [] typeId \in (TagMapTypes \ {"Enumerated"}) -> DecoderOfType(typeId)
      [] OTHER -> NoDecoder

----------------------------------------------------------------------------
(* Schema objects: types, named-type catalogues and tag maps              *)
(* (pyasn1/type/univ.py, namedtype.py, tagmap.py)                          *)

\* A type object that serves as asn1Spec.  componentType is the catalogue (a
\* sequence of named types) of a Sequence, Set or Choice, and a one-element
\* sequence holding the element type of a SequenceOf or SetOf.
TypeSpec(typeId, tagSet, componentType) ==
    [typeId |-> typeId, tagSet |-> tagSet, componentType |-> componentType]

SimpleSpec(typeId) == TypeSpec(typeId, BaseTagSet(typeId), <<>>)

\* subtype(explicitTag=Tag(tagClassContext, tagFormatConstructed, n))
ExplicitlyTagged(spec, n) ==
    [spec EXCEPT !.tagSet = @ \o <<Tag(tagClassContext, tagFormatConstructed, n)>>]

\* subtype(implicitTag=Tag(tagClassContext, fmt, n)): the last tag is replaced
\* and keeps the format of the tag it replaces
ImplicitlyTagged(spec, n) ==
    [spec EXCEPT !.tagSet =
        SubSeq(@, 1, Len(@) - 1) \o <<Tag(tagClassContext, @[Len(@)].tagFormat, n)>>]

\* opentype.OpenType(name, typeMap): name is the governing field, typeMap a
\* sequence of <<governing value, type>> entries; NoOpenType is openType=None
OpenType(name, typeMap) == [present |-> TRUE, name |-> name, typeMap |-> typeMap]

NoOpenType == [present |-> FALSE, name |-> "", typeMap |-> <<>>]

NamedType(name, asn1Object) ==
    [name |-> name, asn1Object |-> asn1Object, isOptional |-> FALSE, isDefaulted |-> FALSE,
     openType |-> NoOpenType]

OptionalNamedType(name, asn1Object) ==
    [name |-> name, asn1Object |-> asn1Object, isOptional |-> TRUE, isDefaulted |-> FALSE,
     openType |-> NoOpenType]

DefaultedNamedType(name, asn1Object) ==
    [name |-> name, asn1Object |-> asn1Object, isOptional |-> FALSE, isDefaulted |-> TRUE,
     openType |-> NoOpenType]

\* NamedType(name, asn1Object, openType=openType)
NamedTypeWith(name, asn1Object, openType) ==
    [NamedType(name, asn1Object) EXCEPT !.openType = openType]

\* NamedTypes.hasOpenTypes
hasOpenTypes(namedTypes) == \E i \in 1..Len(namedTypes) : namedTypes[i].openType.present

\* NamedTypes.getPositionByName(name), from 0
getPositionByName(namedTypes, name) ==
    (CHOOSE i \in 1..Len(namedTypes) : namedTypes[i].name = name) - 1

\* tagmap.TagMap(presentTypes, skipTypes, defaultType): presentTypes is a
\* sequence of <<tag-set key, type>> entries, a later entry overriding an
\* earlier one with the same key, as assignments to a dict do
TagMap(presentTypes, skipTypes, defaultType) ==
    [typeId |-> "TagMap", presentTypes |-> presentTypes,
     skipTypes |-> skipTypes, defaultType |-> defaultType]

EooTagSetKey == TagSetKey(UniversalTagSet(tagFormatSimple, 0))

PresentKeys(tagMap) == {tagMap.presentTypes[i][1] : i \in 1..Len(tagMap.presentTypes)}

\* tagSet in tagMap (TagMap.__contains__)
TagMapContains(tagMap, tagSet) ==
    \/ TagSetKey(tagSet) \in PresentKeys(tagMap)
    \/ /\ tagMap.defaultType.typeId # "None"
       /\ TagSetKey(tagSet) \notin tagMap.skipTypes

\* What TagMap.__getitem__ raises for a key of the negative map
NegativeKey == [typeId |-> "NegativeKey"]

\* tagMap[tagSet] (TagMap.__getitem__); NoSpec stands for the KeyError
TagMapGet(tagMap, tagSet) ==
    With(TagSetKey(tagSet), LAMBDA key :
    With({i \in 1..Len(tagMap.presentTypes) : tagMap.presentTypes[i][1] = key}, LAMBDA hits :
      IF hits # {}
      THEN tagMap.presentTypes[CHOOSE i \in hits : \A j \in hits : j <= i][2]
      ELSE IF tagMap.defaultType.typeId = "None" THEN NoSpec
      ELSE IF key \in tagMap.skipTypes THEN NegativeKey
      ELSE tagMap.defaultType))

RECURSIVE TagMapOf(_)
RECURSIVE NamedTypesTagMap(_, _)

\* NamedTypes.tagMap and NamedTypes.tagMapUnique: each component's tag sets
\* lead to the component's type
NamedTypesTagMap(namedTypes, i) ==
    IF i > Len(namedTypes) THEN TagMap(<<>>, {}, NoSpec)
    ELSE With(TagMapOf(namedTypes[i].asn1Object), LAMBDA own :
         With(NamedTypesTagMap(namedTypes, i + 1), LAMBDA rest :
           TagMap([j \in 1..Len(own.presentTypes) |->
                       <<own.presentTypes[j][1], namedTypes[i].asn1Object>>]
                     \o rest.presentTypes,
                  own.skipTypes \cup rest.skipTypes,
                  IF own.defaultType.typeId # "None" THEN own.defaultType
                  ELSE rest.defaultType)))

\* asn1Object.tagMap
TagMapOf(spec) ==
    CASE spec.typeId = "Any" ->
             TagMap(<<<<TagSetKey(spec.tagSet), spec>>>>, {EooTagSetKey}, spec)
      [] spec.typeId = "Choice" /\ spec.tagSet = <<>> ->
             NamedTypesTagMap(spec.componentType, 1)
      [] OTHER -> TagMap(<<<<TagSetKey(spec.tagSet), spec>>>>, {}, NoSpec)

tagMapUnique(namedTypes) == NamedTypesTagMap(namedTypes, 1)

\* NamedTypes.requiredComponents (slot indices count from 0, as in the code)
requiredComponents(namedTypes) ==
    {i - 1 : i \in {j \in 1..Len(namedTypes) :
        ~namedTypes[j].isOptional /\ ~namedTypes[j].isDefaulted}}

\* NamedTypes.hasOptionalOrDefault
hasOptionalOrDefault(namedTypes) ==
    \E i \in 1..Len(namedTypes) : namedTypes[i].isOptional \/ namedTypes[i].isDefaulted

\* The slots a child met at slot idx may fill: idx, and the slots after it up
\* to the first one that is neither optional nor defaulted
AmbiguousTypes(namedTypes, idx) ==
    With(idx + 1, LAMBDA at :
    With({j \in at + 1..Len(namedTypes) :
             ~namedTypes[j].isOptional /\ ~namedTypes[j].isDefaulted}, LAMBDA stop :
      SubSeq(namedTypes, at,
             IF ~namedTypes[at].isOptional /\ ~namedTypes[at].isDefaulted
             THEN at
             ELSE IF stop = {} THEN Len(namedTypes)
             ELSE CHOOSE j \in stop : \A k \in stop : j <= k)))

\* NamedTypes.getTagMapNearPosition(idx)
getTagMapNearPosition(namedTypes, idx) ==
    NamedTypesTagMap(AmbiguousTypes(namedTypes, idx), 1)

\* NamedTypes.getPositionByType(tagSet): the slot whose type owns the tag
\* set; -1 stands for PyAsn1Error 'Type ... not found'
getPositionByType(namedTypes, tagSet) ==
    With({i \in 1..Len(namedTypes) :
             TagSetKey(tagSet) \in PresentKeys(TagMapOf(namedTypes[i].asn1Object))},
         LAMBDA hits :
      IF hits = {} THEN -1 ELSE (CHOOSE i \in hits : \A j \in hits : i <= j) - 1)

\* NamedTypes.getPositionNearType(tagSet, idx); -1 when no slot near idx owns
\* the tag set
getPositionNearType(namedTypes, tagSet, idx) ==
    With(getPositionByType(AmbiguousTypes(namedTypes, idx), tagSet), LAMBDA near :
      IF near = -1 THEN -1 ELSE idx + near)

----------------------------------------------------------------------------
(* The states of the single-item decoder *)

stDecodeTag == 0

stDecodeLength == 1

stGetValueDecoder == 2

stGetValueDecoderByAsn1Spec == 3

stGetValueDecoderByTag == 4

stTryAsExplicitTag == 5

stDecodeValue == 6

stDumpRawValue == 7

stErrorCondition == 8

stStop == 9

\* The error state the class has in a comment: unknown TLVs are dumped raw
dumpingErrorState == stDumpRawValue

defaultErrorState == stErrorCondition

EOO_SENTINEL == <<0, 0>>

----------------------------------------------------------------------------
(* Helpers shared by the payload decoders *)

\* **options without the open-type keys
NoOptions == [openTypes |-> <<>>, decodeOpenTypes |-> FALSE]

\* The substrate a decoder runs on: the octets and the octets buffered at each
\* resumption of the iterator; with it travel the decoder class's
\* supportIndefLength and the **options that every call hands on unchanged
Substrate(data, history, indef, opts) ==
    [data |-> data, hist |-> history, supportIndefLength |-> indef, options |-> opts]

\* The arguments of one call of the single-item decoder or a payload decoder
CallArgs(spec, tagSet, length, state, substrateFun, allowEoo) ==
    [asn1Spec |-> spec, tagSet |-> tagSet, length |-> length, state |-> state,
     substrateFun |-> substrateFun, allowEoo |-> allowEoo]

\* What AbstractSimplePayloadDecoder.substrateCollector yields: raw octets
Chunk(octets) == [type |-> "bytes", octets |-> octets]

\* AbstractSimplePayloadDecoder._createComponent (BooleanPayloadDecoder
\* overrides it to normalise the integer to 0 or 1)
createComponent(d, spec, tagSet, payload) ==
    LET norm == IF d.cls = "BooleanPayloadDecoder"
                THEN [value |-> IF payload.value # 0 THEN 1 ELSE 0]
                ELSE payload
    IN IF spec.typeId = "None"
       THEN Asn1Value(d.protoComponent, tagSet, norm)
       ELSE Asn1Value(spec.typeId, spec.tagSet, norm)

\* readFromStream(substrate, size=-1): all that is buffered past the cursor,
\* EndOfStreamError when that is nothing
readAllFromStream(s, c) ==
    IF Suspended(s, c) THEN Susp(c)
    ELSE IF isEndOfStream(s, c) THEN Raise([type |-> "EndOfStreamError", msg |-> ""], c)
    ELSE Ok(readRest(s, c), [c EXCEPT !.pos = Buffered(s, c)])

\* substrateCollector(asn1Object, substrate, length, options)
substrateCollector(s, c, length) ==
    LET rd == IF length = -1 THEN readAllFromStream(s, c) ELSE readFromStream(s, c, length)
    IN IF rd.k # "ok" THEN rd ELSE Ok(Chunk(rd.v), rd.c)

\* A consumer's "for item in decodeFun(...): if isinstance(item,
\* SubstrateUnderrunError): yield item": when the last item of the generator is
\* itself a marker, the consumer yields it once more and is suspended there
Relay(s, r) ==
    IF r.k = "ok" /\ IsUnderrun(r.v)
    THEN LET c1 == [r.c EXCEPT !.out = Append(@, r.v)]
         IN IF Suspended(s, c1) THEN Susp(c1) ELSE Ok(r.v, c1)
    ELSE r

\* The exception an attribute access on something that is no ASN.1 value raises
NoAttribute(item, name) ==
    IF item.type = "noValue"
    THEN PyAsn1Error("Attempted operation on ASN.1 schema object")
    ELSE AttributeError(name)

RECURSIVE UnsignedOf(_)
\* Big-endian unsigned value of a sequence of octets
UnsignedOf(octets) ==
    IF octets = <<>> THEN 0
    ELSE UnsignedOf(SubSeq(octets, 1, Len(octets) - 1)) * 256 + octets[Len(octets)]

RECURSIVE Pow(_, _)
Pow(b, n) == IF n = 0 THEN 1 ELSE b * Pow(b, n - 1)

\* compat.integer.from_bytes(octets, signed=True)
from_bytes(octets) ==
    IF octets[1] >= 128
    THEN UnsignedOf(octets) - Pow(256, Len(octets))
    ELSE UnsignedOf(octets)

\* The single-item decoder, and the same as most payload decoders consume it
\* (decodeFun)
RECURSIVE SingleItemDecoder(_, _, _)
RECURSIVE decodeFun(_, _, _)

----------------------------------------------------------------------------
(* RawPayloadDecoder *)

RawPayloadDecoder_valueDecoder(d, s, c, a) ==
    IF a.substrateFun # "None"
    THEN substrateCollector(s, c, a.length)
    ELSE decodeFun(s, c, CallArgs(a.asn1Spec, a.tagSet, a.length, stDecodeTag, "None", FALSE))

RECURSIVE RawIndefLoop(_, _, _, _)
\* while True: every item of decodeFun is yielded, end-of-octets returns.
\* last is the last item yielded so far, under the number of markers that had
\* been yielded when it was
RawIndefLoop(s, c, a, last) ==
    LET r == decodeFun(s, c, CallArgs(a.asn1Spec, a.tagSet, a.length, stDecodeTag, "None", TRUE))
    IN IF r.k # "ok" THEN r
       ELSE IF r.v.type = "endOfOctets"
            THEN IF Len(r.c.out) > last.yielded
                 THEN Ok(r.c.out[Len(r.c.out)], r.c)
                 ELSE Ok(last.item, r.c)
            ELSE RawIndefLoop(s, r.c, a, [item |-> r.v, yielded |-> Len(r.c.out)])

RawPayloadDecoder_indefLenValueDecoder(d, s, c, a) ==
    IF a.substrateFun # "None"
    THEN substrateCollector(s, c, a.length)
    ELSE RawIndefLoop(s, c, a, [item |-> noValue, yielded |-> Len(c.out)])

----------------------------------------------------------------------------
(* Integer, Boolean, Null *)

\* An Integer decoder that reads the content as an unsigned number
IntegerUnsigned(d, s, c, a) ==
    IF a.tagSet[1].tagFormat # tagFormatSimple
    THEN Raise(PyAsn1Error("Simple tag format expected"), c)
    ELSE LET rd == readFromStream(s, c, a.length)
         IN IF rd.k # "ok" THEN rd
            ELSE Ok(createComponent(d, a.asn1Spec, a.tagSet, [value |-> UnsignedOf(rd.v)]),
                    rd.c)

\* Also BooleanPayloadDecoder, which inherits it
IntegerPayloadDecoder_valueDecoder(d, s, c, a) ==
    IF a.tagSet[1].tagFormat # tagFormatSimple
    THEN Raise(PyAsn1Error("Simple tag format expected"), c)
    ELSE LET rd == readFromStream(s, c, a.length)
         IN IF rd.k # "ok" THEN rd
            ELSE Ok(createComponent(d, a.asn1Spec, a.tagSet,
                        [value |-> IF rd.v # <<>> THEN from_bytes(rd.v) ELSE 0]),
                    rd.c)

\* A Null decoder that skips whatever content the TLV declares
NullSkipsContent(d, s, c, a) ==
    LET rd == readFromStream(s, c, a.length)
    IN IF rd.k # "ok" THEN rd
       ELSE Ok(createComponent(d, a.asn1Spec, a.tagSet, [octets |-> <<>>]), rd.c)

NullPayloadDecoder_valueDecoder(d, s, c, a) ==
    IF a.tagSet[1].tagFormat # tagFormatSimple
    THEN Raise(PyAsn1Error("Simple tag format expected"), c)
    ELSE LET rd == readFromStream(s, c, a.length)
         IN IF rd.k # "ok" THEN rd
            ELSE IF rd.v # <<>>
                 THEN Raise(PyAsn1Error("Unexpected substrate for Null"), rd.c)
                 ELSE Ok(createComponent(d, a.asn1Spec, a.tagSet, [octets |-> <<>>]), rd.c)

----------------------------------------------------------------------------
(* ObjectIdentifier *)

RECURSIVE SubIdLoop(_, _, _, _)
\* while nextSubId >= 128: the sub-identifier that spans several octets.
\* index counts the octets consumed so far.
SubIdLoop(chunk, index, subId, nextSubId) ==
    IF nextSubId >= 128
    THEN IF index >= Len(chunk)
         THEN [ok |-> FALSE, index |-> index, subId |-> 0]
         ELSE SubIdLoop(chunk, index + 1, subId * 128 + (nextSubId % 128), chunk[index + 1])
    ELSE [ok |-> TRUE, index |-> index, subId |-> subId * 128 + nextSubId]

RECURSIVE OidLoop(_, _, _)
\* while index < substrateLen; the result is the tuple of sub-identifiers or
\* the exception raised
OidLoop(chunk, index, oid) ==
    IF index >= Len(chunk) THEN [err |-> "None", oid |-> oid]
    ELSE LET subId == chunk[index + 1]
         IN IF subId < 128 THEN OidLoop(chunk, index + 1, Append(oid, subId))
            ELSE IF subId > 128
            THEN LET sub == SubIdLoop(chunk, index + 1, 0, subId)
                 IN IF ~sub.ok THEN [err |-> "SubstrateUnderrunError", oid |-> oid]
                    ELSE OidLoop(chunk, sub.index, Append(oid, sub.subId))
            ELSE [err |-> "PyAsn1Error", oid |-> oid]

\* The first sub-identifier split as 40 * X + Y with no bound on X
FortyPerArc(oid) == <<oid[1] \div 40, oid[1] % 40>> \o Tail(oid)

\* Decode two leading arcs
LeadingArcs(oid) ==
    IF 0 <= oid[1] /\ oid[1] <= 39 THEN <<0>> \o oid
    ELSE IF 40 <= oid[1] /\ oid[1] <= 79 THEN <<1, oid[1] - 40>> \o Tail(oid)
    ELSE <<2, oid[1] - 80>> \o Tail(oid)

ObjectIdentifierPayloadDecoder_valueDecoder(d, s, c, a) ==
    IF a.tagSet[1].tagFormat # tagFormatSimple
    THEN Raise(PyAsn1Error("Simple tag format expected"), c)
    ELSE LET rd == readFromStream(s, c, a.length)
         IN IF rd.k # "ok" THEN rd
            ELSE IF rd.v = <<>> THEN Raise(PyAsn1Error("Empty substrate"), rd.c)
            ELSE LET got == OidLoop(rd.v, 0, <<>>)
                 IN IF got.err = "SubstrateUnderrunError"
                    THEN Raise(SubstrateUnderrunError("Short substrate for sub-OID"), rd.c)
                    ELSE IF got.err = "PyAsn1Error"
                    THEN Raise(PyAsn1Error("Invalid octet 0x80 in OID encoding"), rd.c)
                    ELSE Ok(createComponent(d, a.asn1Spec, a.tagSet,
                                [arcs |-> LeadingArcs(got.oid)]), rd.c)

----------------------------------------------------------------------------
(* OctetString, and the character-string and useful types that inherit it *)

\* header += component: octets take octets, and an OctetString or Any value
\* through its __radd__
CanConcatenate(item) == item.type \in {"bytes", "Any"} \cup OctetStringTypes

\* A decoder that puts each fragment before the ones it has
Prepended(header, component) == component.octets \o header

\* header += component
Concatenated(header, component) == header \o component.octets

RECURSIVE OctetStringFragments(_, _, _, _, _, _)
\* while substrate.tell() - original_position < length
OctetStringFragments(d, s, c, a, original_position, header) ==
    IF ~(c.pos - original_position < a.length)
    THEN Ok(createComponent(d, a.asn1Spec, a.tagSet, [octets |-> header]), c)
    ELSE LET r == decodeFun(s, c, CallArgs(SimpleSpec(d.protoComponent), <<>>, 0,
                                           stDecodeTag, "substrateCollector", FALSE))
         IN IF r.k # "ok" THEN r
            ELSE IF ~CanConcatenate(r.v) THEN Raise(TypeError("header += component"), r.c)
            ELSE OctetStringFragments(d, s, r.c, a, original_position,
                                      Concatenated(header, r.v))

OctetStringPayloadDecoder_valueDecoder(d, s, c, a) ==
    IF a.substrateFun # "None" THEN substrateCollector(s, c, a.length)
    ELSE IF a.tagSet[1].tagFormat = tagFormatSimple
    THEN LET rd == readFromStream(s, c, a.length)
         IN IF rd.k # "ok" THEN rd
            ELSE Ok(createComponent(d, a.asn1Spec, a.tagSet, [octets |-> rd.v]), rd.c)
    ELSE OctetStringFragments(d, s, c, a, c.pos, <<>>)

RECURSIVE OctetStringIndefFragments(_, _, _, _, _)
\* while True: loop over fragments
OctetStringIndefFragments(d, s, c, a, header) ==
    LET r == decodeFun(s, c, CallArgs(SimpleSpec(d.protoComponent), <<>>, 0,
                                      stDecodeTag, "substrateCollector", TRUE))
    IN IF r.k # "ok" THEN r
       ELSE IF r.v.type = "endOfOctets"
       THEN Ok(createComponent(d, a.asn1Spec, a.tagSet, [octets |-> header]), r.c)
       ELSE IF ~CanConcatenate(r.v) THEN Raise(TypeError("header += component"), r.c)
       ELSE OctetStringIndefFragments(d, s, r.c, a, Concatenated(header, r.v))

\* A substrateFun other than the collector is the caller's; the model has
\* none, so the first branch of the code is never taken
OctetStringPayloadDecoder_indefLenValueDecoder(d, s, c, a) ==
    OctetStringIndefFragments(d, s, c, a, <<>>)

----------------------------------------------------------------------------
(* BitString *)

RECURSIVE BitsOfOctet(_, _)
\* The n most significant bits of what is left of an octet, as a sequence
BitsOfOctet(octet, n) ==
    IF n = 0 THEN <<>> ELSE BitsOfOctet(octet \div 2, n - 1) \o <<octet % 2>>

RECURSIVE BitsOf(_)
BitsOf(octets) ==
    IF octets = <<>> THEN <<>> ELSE BitsOfOctet(octets[1], 8) \o BitsOf(Tail(octets))

\* univ.BitString.fromOctetString(octets, internalFormat=True, prepend=...,
\* padding=...): the bits of the octets without the last padding ones, after
\* the bits of prepend
fromOctetString(octets, prepend, padding) ==
    LET bits == BitsOf(octets)
    IN prepend \o SubSeq(bits, 1, IF Len(bits) >= padding THEN Len(bits) - padding ELSE 0)

\* One fragment of a constructed BitString, as the collector delivers it
BitStringFragment(s, r, bitString) ==
    IF r.v.type # "bytes" THEN Raise(TypeError("component[0]"), r.c)
    ELSE IF r.v.octets = <<>> THEN Raise(IndexError("component[0]"), r.c)
    ELSE IF r.v.octets[1] > 7 THEN Raise(PyAsn1Error("Trailing bits overflow"), r.c)
    ELSE Ok(fromOctetString(Tail(r.v.octets), bitString, r.v.octets[1]), r.c)

RECURSIVE BitStringFragments(_, _, _, _, _, _)
\* while substrate.tell() - current_position < length
BitStringFragments(d, s, c, a, current_position, bitString) ==
    IF ~(c.pos - current_position < a.length)
    THEN Ok(createComponent(d, a.asn1Spec, a.tagSet, [bits |-> bitString]), c)
    ELSE LET r == decodeFun(s, c, CallArgs(SimpleSpec(d.protoComponent), <<>>, 0,
                                           stDecodeTag, "substrateCollector", FALSE))
         IN IF r.k # "ok" THEN r
            ELSE LET f == BitStringFragment(s, r, bitString)
                 IN IF f.k # "ok" THEN f
                    ELSE BitStringFragments(d, s, f.c, a, current_position, f.v)

BitStringPayloadDecoder_valueDecoder(d, s, c, a) ==
    IF a.substrateFun # "None" THEN substrateCollector(s, c, a.length)
    ELSE IF a.length = 0 THEN Raise(PyAsn1Error("Empty BIT STRING substrate"), c)
    ELSE IF isEndOfStream(s, c) THEN Raise(PyAsn1Error("Empty BIT STRING substrate"), c)
    ELSE IF a.tagSet[1].tagFormat = tagFormatSimple
    THEN LET tb == readFromStream(s, c, 1)
         IN IF tb.k # "ok" THEN tb
            ELSE IF tb.v[1] > 7 THEN Raise(PyAsn1Error("Trailing bits overflow"), tb.c)
            ELSE LET rd == readFromStream(s, tb.c, a.length - 1)
                 IN IF rd.k # "ok" THEN rd
                    ELSE Ok(createComponent(d, a.asn1Spec, a.tagSet,
                                [bits |-> fromOctetString(rd.v, <<>>, tb.v[1])]), rd.c)
    ELSE BitStringFragments(d, s, c, a, c.pos, <<>>)

RECURSIVE BitStringIndefFragments(_, _, _, _, _)
\* while True: loop over fragments
BitStringIndefFragments(d, s, c, a, bitString) ==
    LET r == decodeFun(s, c, CallArgs(SimpleSpec(d.protoComponent), <<>>, 0,
                                      stDecodeTag, "substrateCollector", TRUE))
    IN IF r.k # "ok" THEN r
       ELSE IF r.v.type = "endOfOctets"
       THEN Ok(createComponent(d, a.asn1Spec, a.tagSet, [bits |-> bitString]), r.c)
       ELSE LET f == BitStringFragment(s, r, bitString)
            IN IF f.k # "ok" THEN f
               ELSE BitStringIndefFragments(d, s, f.c, a, f.v)

BitStringPayloadDecoder_indefLenValueDecoder(d, s, c, a) ==
    IF a.substrateFun # "None" THEN substrateCollector(s, c, a.length)
    ELSE BitStringIndefFragments(d, s, c, a, <<>>)

----------------------------------------------------------------------------
(* Any *)

\* The payload decoder's asn1Spec carries the tag set on the wire
SpecIsTagged(spec, tagSet) ==
    IF spec.typeId = "None" THEN FALSE
    ELSE IF spec.typeId = "TagMap" THEN TagMapContains(spec, tagSet)
    ELSE TagSetEq(tagSet, spec.tagSet)

AnyPayloadDecoder_valueDecoder(d, s, c, a) ==
    LET isUntagged == ~SpecIsTagged(a.asn1Spec, a.tagSet)
        fullPosition == c.markedPosition
        currentPosition == c.pos
        c1 == IF isUntagged THEN [c EXCEPT !.pos = fullPosition] ELSE c
        length == IF isUntagged THEN a.length + (currentPosition - fullPosition) ELSE a.length
    IN IF a.substrateFun # "None" THEN substrateCollector(s, c1, length)
       ELSE LET rd == readFromStream(s, c1, length)
            IN IF rd.k # "ok" THEN rd
               ELSE Ok(createComponent(d, a.asn1Spec, a.tagSet, [octets |-> rd.v]), rd.c)

RECURSIVE AnyIndefFragments(_, _, _, _, _)
\* while True: loop over fragments; the collector is always set by then, so
\* the octets themselves are yielded, never a value made of them
AnyIndefFragments(d, s, c, a, chunk) ==
    LET r == decodeFun(s, c, CallArgs(TypeSpec("Any", <<>>, <<>>), <<>>, 0,
                                      stDecodeTag, "substrateCollector", TRUE))
    IN IF r.k # "ok" THEN r
       ELSE IF r.v.type = "endOfOctets" THEN Ok(Chunk(chunk), r.c)
       ELSE IF ~CanConcatenate(r.v) THEN Raise(TypeError("chunk += component"), r.c)
       ELSE AnyIndefFragments(d, s, r.c, a, chunk \o r.v.octets)

AnyPayloadDecoder_indefLenValueDecoder(d, s, c, a) ==
    IF SpecIsTagged(a.asn1Spec, a.tagSet)
    THEN AnyIndefFragments(d, s, c, a, <<>>)
    ELSE LET fullPosition == c.markedPosition
             currentPosition == c.pos
             rd == readFromStream(s, [c EXCEPT !.pos = fullPosition],
                                  currentPosition - fullPosition)
         IN IF rd.k # "ok" THEN rd
            ELSE AnyIndefFragments(d, s, rd.c, a, rd.v)

----------------------------------------------------------------------------
(* Container values: univ.Sequence, Set, SequenceOf, SetOf, Choice *)

RECURSIVE effectiveTagSet(_)
\* value.effectiveTagSet: an untagged Choice answers with its chosen
\* component's; ok is FALSE when the attribute access raises
effectiveTagSet(v) ==
    IF ~IsAsn1Item(v) \/ v.type = "bytes"
    THEN [ok |-> FALSE, tagSet |-> <<>>, err |-> NoAttribute(v, "effectiveTagSet")]
    ELSE IF v.type = "Choice" /\ v.tagSet = <<>>
    THEN With({i \in 1..Len(v.components) : v.components[i].type # "noValue"}, LAMBDA set :
           IF set = {}
           THEN [ok |-> FALSE, tagSet |-> <<>>, err |-> PyAsn1Error("Component not chosen")]
           ELSE effectiveTagSet(v.components[CHOOSE i \in set : TRUE]))
    ELSE [ok |-> TRUE, tagSet |-> v.tagSet, err |-> noValue]

\* asn1Spec.clone() followed by clear(): every slot of the catalogue unset
EmptyContainer(spec) ==
    Asn1Value(spec.typeId, spec.tagSet,
              [components |-> IF spec.typeId \in {"Sequence", "Set", "Choice"}
                              THEN [i \in 1..Len(spec.componentType) |-> noValue]
                              ELSE <<>>])

\* What setComponentByPosition stores for the item it is given: a value as
\* it is, octets cast to a slot of an octet-string or Any type; anything
\* else cannot be stored
Storable(item, slotType) ==
    IF IsAsn1Item(item) /\ item.type # "bytes" THEN [ok |-> TRUE, value |-> item]
    ELSE IF item.type = "bytes" /\ slotType.typeId \in OctetStringTypes \cup {"Any"}
    THEN [ok |-> TRUE,
          value |-> Asn1Value(slotType.typeId, slotType.tagSet, [octets |-> item.octets])]
    ELSE [ok |-> FALSE, value |-> noValue]

\* asn1Object.setComponentByPosition(idx, component, verifyConstraints=False,
\* matchTags=False, matchConstraints=False) on a Sequence or Set with the
\* catalogue namedTypes (empty for a value made without a schema): the slot is
\* overwritten whatever it held
setComponentByPosition(obj, namedTypes, idx, item, c) ==
    With(Len(obj.components), LAMBDA n :
    With(Storable(item, IF idx < Len(namedTypes) THEN namedTypes[idx + 1].asn1Object
                        ELSE NoSpec), LAMBDA st :
      IF Len(namedTypes) > 0 /\ idx > Len(namedTypes)
      THEN Raise(PyAsn1Error("component index out of range"), c)
      ELSE IF ~st.ok THEN Raise(PyAsn1Error("cannot store the component"), c)
      ELSE IF idx < n THEN Ok([obj EXCEPT !.components[idx + 1] = st.value], c)
      ELSE IF Len(namedTypes) > 0 THEN Raise(IndexError("list assignment index out of range"), c)
      ELSE IF idx = n THEN Ok([obj EXCEPT !.components = Append(@, st.value)], c)
      ELSE Raise(PyAsn1Error("Component index out of range"), c)))

\* The same on a SequenceOf or SetOf whose element type is componentType
setElementByPosition(obj, componentType, idx, item, c) ==
    With(Storable(item, componentType), LAMBDA st :
      IF ~st.ok THEN Raise(PyAsn1Error("cannot store the component"), c)
      ELSE IF idx < Len(obj.components)
      THEN Ok([obj EXCEPT !.components[idx + 1] = st.value], c)
      ELSE Ok([obj EXCEPT !.components = Append(@, st.value)], c))

\* asn1Object.setComponentByType(tagSet, component, ..., innerFlag=False) on a
\* Choice: the slot owning the tag set becomes the one chosen branch
setComponentByType(obj, namedTypes, tagSet, item, c) ==
    With(getPositionByType(namedTypes, tagSet), LAMBDA idx :
      IF idx = -1 THEN Raise(PyAsn1Error("Type not found"), c)
      ELSE With(Storable(item, namedTypes[idx + 1].asn1Object), LAMBDA st :
             IF ~st.ok THEN Raise(PyAsn1Error("cannot store the component"), c)
             ELSE Ok([obj EXCEPT !.components =
                         [i \in 1..Len(namedTypes) |->
                             IF i = idx + 1 THEN st.value ELSE noValue]], c)))

----------------------------------------------------------------------------
(* Real *)

\* What univ.Real is made from: (mantissa, base, exponent), or one of the
\* special values, or the numeral of a character encoding
RealTuple(m, b, e) == [mantissa |-> m, base |-> b, exponent |-> e, special |-> "", text |-> <<>>]

RealSpecial(name, text) ==
    [mantissa |-> 0, base |-> 10, exponent |-> 0, special |-> name, text |-> text]

Digits == 48..57

\* The characters an ISO 6093 numeral is written with: space, sign, comma,
\* full stop, digits, E and e
IsNumeral(chunk, charset) ==
    /\ \A i \in 1..Len(chunk) : chunk[i] \in charset
    /\ \E i \in 1..Len(chunk) : chunk[i] \in Digits

RECURSIVE DecimalOf(_)
DecimalOf(chunk) ==
    IF chunk = <<>> THEN 0
    ELSE DecimalOf(SubSeq(chunk, 1, Len(chunk) - 1)) * 10 + (chunk[Len(chunk)] - 48)

\* int(chunk) for an NR1 numeral: an optional sign, then digits only
IsInt(chunk) ==
    LET body == IF chunk # <<>> /\ chunk[1] \in {43, 45} THEN Tail(chunk) ELSE chunk
    IN body # <<>> /\ \A i \in 1..Len(body) : body[i] \in Digits

IntOf(chunk) ==
    IF chunk[1] = 45 THEN -DecimalOf(Tail(chunk))
    ELSE IF chunk[1] = 43 THEN DecimalOf(Tail(chunk))
    ELSE DecimalOf(chunk)

\* The binary encoding read with the exponent as it is encoded, whatever the
\* base bits
RealBinaryAnyBase(fo, chunk0) ==
    LET n0 == (fo % 4) + 1
        n == IF n0 = 4 THEN chunk0[1] ELSE n0
        chunk1 == IF n0 = 4 THEN Tail(chunk0) ELSE chunk0
        eo == SubSeq(chunk1, 1, IF n <= Len(chunk1) THEN n ELSE Len(chunk1))
        chunk == SubSeq(chunk1, Len(eo) + 1, Len(chunk1))
        p0 == UnsignedOf(chunk)
        p == (IF (fo \div 64) % 2 = 1 THEN -p0 ELSE p0) * Pow(2, (fo \div 4) % 4)
    IN IF chunk0 = <<>> THEN [err |-> PyAsn1Error("Incomplete floating-point value")]
       ELSE IF eo = <<>> \/ chunk = <<>> THEN [err |-> PyAsn1Error("Real exponent screwed")]
       ELSE [err |-> noValue, value |-> RealTuple(p, 2, from_bytes(eo))]

\* The binary encoding: first octet fo, then the exponent and the mantissa
RealBinary(fo, chunk0) ==
    LET n0 == (fo % 4) + 1
        n == IF n0 = 4 THEN chunk0[1] ELSE n0
        chunk1 == IF n0 = 4 THEN Tail(chunk0) ELSE chunk0
        eo == SubSeq(chunk1, 1, IF n <= Len(chunk1) THEN n ELSE Len(chunk1))
        chunk == SubSeq(chunk1, Len(eo) + 1, Len(chunk1))
        b == (fo \div 16) % 4
        e == from_bytes(eo) * (IF b = 1 THEN 3 ELSE IF b = 2 THEN 4 ELSE 1)
        p0 == UnsignedOf(chunk)
        p == (IF (fo \div 64) % 2 = 1 THEN -p0 ELSE p0) * Pow(2, (fo \div 4) % 4)
    IN IF chunk0 = <<>> THEN [err |-> PyAsn1Error("Incomplete floating-point value")]
       ELSE IF eo = <<>> \/ chunk = <<>> THEN [err |-> PyAsn1Error("Real exponent screwed")]
       ELSE IF b > 2 THEN [err |-> PyAsn1Error("Illegal Real base")]
       ELSE [err |-> noValue, value |-> RealTuple(p, 2, e)]

\* The character encoding: NR1 gives an integer, NR2 and NR3 a float, whose
\* numeral the model keeps as it is written
RealCharacter(fo, chunk) ==
    IF chunk = <<>> THEN [err |-> PyAsn1Error("Incomplete floating-point value")]
    ELSE IF fo % 4 = 1
    THEN IF IsInt(chunk) THEN [err |-> noValue, value |-> RealTuple(IntOf(chunk), 10, 0)]
         ELSE [err |-> SubstrateUnderrunError("Bad character Real syntax")]
    ELSE IF fo % 4 \in {2, 3}
    THEN IF IsNumeral(chunk, Digits \cup {43, 45, 46, 69, 101})
         THEN [err |-> noValue, value |-> RealSpecial("float", chunk)]
         ELSE [err |-> SubstrateUnderrunError("Bad character Real syntax")]
    ELSE [err |-> SubstrateUnderrunError("Unknown NR")]

RealPayloadDecoder_valueDecoder(d, s, c, a) ==
    IF a.tagSet[1].tagFormat # tagFormatSimple
    THEN Raise(PyAsn1Error("Simple tag format expected"), c)
    ELSE LET rd == readFromStream(s, c, a.length)
         IN IF rd.k # "ok" THEN rd
            ELSE IF rd.v = <<>>
            THEN Ok(createComponent(d, a.asn1Spec, a.tagSet,
                                    [real |-> RealSpecial("float", <<48, 46, 48>>)]), rd.c)
            ELSE LET fo == rd.v[1]
                     chunk == Tail(rd.v)
                     got == IF fo >= 128 THEN RealBinary(fo, chunk)
                            ELSE IF fo >= 64
                            THEN [err |-> noValue,
                                  value |-> RealSpecial(IF fo % 2 = 1 THEN "-inf" ELSE "inf",
                                                        <<>>)]
                            ELSE RealCharacter(fo, chunk)
                 IN IF got.err.type # "noValue" THEN Raise(got.err, rd.c)
                    ELSE Ok(createComponent(d, a.asn1Spec, a.tagSet, [real |-> got.value]),
                            rd.c)

----------------------------------------------------------------------------
(* ConstructedPayloadDecoderBase: Sequence, Set, SequenceOf, SetOf *)

\* A decoder that takes every constructed value for a homogeneous container
AlwaysSequenceOf(d, componentTypes) == d.protoSequenceComponent

\* The heuristics: 1+ components of different types -> likely SEQUENCE/SET,
\* otherwise -> likely SEQUENCE OF/SET OF
GuessedComponent(d, componentTypes) ==
    IF Cardinality(componentTypes) > 1 THEN d.protoRecordComponent
    ELSE d.protoSequenceComponent

RECURSIVE SchemalessLoop(_, _, _, _, _, _, _)
\* while length == -1 or substrate.tell() < original_position + length.
\* st holds components, componentTypes and asn1Object, which is first
\* assigned inside the loop body
SchemalessLoop(d, s, c, a, allowEoo, original_position, st) ==
    IF ~(a.length = -1 \/ c.pos < original_position + a.length) THEN Ok(st, c)
    ELSE Then(decodeFun(s, c, CallArgs(NoSpec, <<>>, 0, stDecodeTag, "None", allowEoo)),
              LAMBDA r :
           IF a.length = -1 /\ r.v.type = "endOfOctets" THEN Ok(st, r.c)
           ELSE IF ~IsAsn1Item(r.v) \/ r.v.type \in {"bytes", "endOfOctets"}
           THEN Raise(NoAttribute(r.v, "tagSet"), r.c)
           ELSE LET types == st.componentTypes \cup {TagSetKey(r.v.tagSet)}
                    protoComponent == GuessedComponent(d, types)
                IN SchemalessLoop(d, s, r.c, a, allowEoo, original_position,
                       [components |-> Append(st.components, r.v),
                        componentTypes |-> types,
                        asn1Object |-> Asn1Value(protoComponent, a.tagSet,
                                                 [components |-> <<>>])]))

\* _decodeComponentsSchemaless: the children are stored at positions 0..n-1
\* of whatever asn1Object is after the loop
decodeComponentsSchemaless(d, s, c, a, allowEoo) ==
    Then(SchemalessLoop(d, s, c, a, allowEoo, c.pos,
                        [components |-> <<>>, componentTypes |-> {},
                         asn1Object |-> NoneObject]), LAMBDA r :
      IF r.v.components = <<>> THEN Ok(r.v.asn1Object, r.c)
      ELSE Ok([r.v.asn1Object EXCEPT !.components = r.v.components], r.c))

\* The asn1Spec the next child of a Sequence or Set is decoded with, definite
\* form; [typeId |-> "IndexError"] when namedTypes[idx] does not exist
ComponentTypeAt(namedTypes, isSetType, isDeterministic, idx) ==
    IF namedTypes = <<>> THEN NoSpec
    ELSE IF isSetType THEN tagMapUnique(namedTypes)
    ELSE IF idx >= Len(namedTypes) THEN [typeId |-> "IndexError"]
    ELSE IF isDeterministic THEN namedTypes[idx + 1].asn1Object
    ELSE IF namedTypes[idx + 1].isOptional \/ namedTypes[idx + 1].isDefaulted
    THEN getTagMapNearPosition(namedTypes, idx)
    ELSE namedTypes[idx + 1].asn1Object

\* The same in the indefinite form, where a child past the catalogue is
\* decoded without a schema
IndefComponentTypeAt(namedTypes, isSetType, isDeterministic, idx) ==
    IF Len(namedTypes) <= idx THEN NoSpec
    ELSE ComponentTypeAt(namedTypes, isSetType, isDeterministic, idx)

\* The slot a decoded child goes to, then setComponentByPosition,
\* seenIndices.add(idx) and idx += 1 (the tail of both component loops)
StoreComponent(namedTypes, isSetType, isDeterministic, st, component, c) ==
    With(effectiveTagSet(component), LAMBDA eff :
    With(~isDeterministic /\ namedTypes # <<>>, LAMBDA moved :
    With(moved /\ ~isSetType /\ st.idx < Len(namedTypes)
         /\ (namedTypes[st.idx + 1].isOptional \/ namedTypes[st.idx + 1].isDefaulted),
         LAMBDA relocate :
    With(IF moved /\ isSetType THEN getPositionByType(namedTypes, eff.tagSet)
         ELSE IF relocate THEN getPositionNearType(namedTypes, eff.tagSet, st.idx)
         ELSE st.idx, LAMBDA idx :
      IF moved /\ ~isSetType /\ st.idx >= Len(namedTypes)
      THEN Raise(IndexError("namedTypes[idx]"), c)
      ELSE IF ((moved /\ isSetType) \/ relocate) /\ ~eff.ok THEN Raise(eff.err, c)
      ELSE IF idx = -1 THEN Raise(PyAsn1Error("Type not found"), c)
      ELSE Then(setComponentByPosition(st.asn1Object, namedTypes, idx, component, c),
                LAMBDA r :
             Ok([asn1Object |-> r.v,
                 seenIndices |-> st.seenIndices \cup {idx},
                 idx |-> idx + 1], c))))))

RECURSIVE RecordLoop(_, _, _, _, _, _, _)
\* while substrate.tell() - original_position < length
RecordLoop(s, c, a, isSetType, isDeterministic, original_position, st) ==
    IF ~(c.pos - original_position < a.length) THEN Ok(st, c)
    ELSE With(ComponentTypeAt(a.asn1Spec.componentType, isSetType, isDeterministic, st.idx),
              LAMBDA componentType :
           IF componentType.typeId = "IndexError"
           THEN Raise(PyAsn1Error("Excessive components decoded"), c)
           ELSE Then(decodeFun(s, c, CallArgs(componentType, <<>>, 0,
                                              stDecodeTag, "None", FALSE)), LAMBDA r :
                Then(StoreComponent(a.asn1Spec.componentType, isSetType, isDeterministic,
                                    st, r.v, r.c), LAMBDA p :
                  RecordLoop(s, r.c, a, isSetType, isDeterministic,
                             original_position, p.v))))

RECURSIVE IndefRecordLoop(_, _, _, _, _, _)
\* while True: loop over components, left at the end-of-octets sentinel
IndefRecordLoop(s, c, a, isSetType, isDeterministic, st) ==
    Then(decodeFun(s, c, CallArgs(IndefComponentTypeAt(a.asn1Spec.componentType, isSetType,
                                                       isDeterministic, st.idx),
                                  <<>>, 0, stDecodeTag, "None", TRUE)), LAMBDA r :
      IF r.v.type = "endOfOctets" THEN Ok(st, r.c)
      ELSE Then(StoreComponent(a.asn1Spec.componentType, isSetType, isDeterministic,
                               st, r.v, r.c), LAMBDA p :
             IndefRecordLoop(s, r.c, a, isSetType, isDeterministic, p.v)))

RECURSIVE ElementLoop(_, _, _, _, _)
\* SequenceOf / SetOf: while substrate.tell() - original_position < length
ElementLoop(s, c, a, original_position, st) ==
    IF ~(c.pos - original_position < a.length) THEN Ok(st, c)
    ELSE Then(decodeFun(s, c, CallArgs(a.asn1Spec.componentType[1], <<>>, 0,
                                       stDecodeTag, "None", FALSE)), LAMBDA r :
         Then(setElementByPosition(st.asn1Object, a.asn1Spec.componentType[1],
                                   st.idx, r.v, r.c), LAMBDA p :
           ElementLoop(s, r.c, a, original_position,
                       [asn1Object |-> p.v, idx |-> st.idx + 1])))

RECURSIVE IndefElementLoop(_, _, _, _)
IndefElementLoop(s, c, a, st) ==
    Then(decodeFun(s, c, CallArgs(a.asn1Spec.componentType[1], <<>>, 0,
                                  stDecodeTag, "None", TRUE)), LAMBDA r :
      IF r.v.type = "endOfOctets" THEN Ok(st, r.c)
      ELSE Then(setElementByPosition(st.asn1Object, a.asn1Spec.componentType[1],
                                     st.idx, r.v, r.c), LAMBDA p :
             IndefElementLoop(s, r.c, a, [asn1Object |-> p.v, idx |-> st.idx + 1])))

\* A decoder that takes every record for complete
NothingUninitialized(namedTypes, seenIndices) == FALSE

\* not namedTypes.requiredComponents.issubset(seenIndices)
HasUninitializedComponents(namedTypes, seenIndices) ==
    ~(requiredComponents(namedTypes) \subseteq seenIndices)

\* asn1Object.isInconsistent of a Sequence or Set: a slot that is neither
\* optional nor defaulted holds no value
isInconsistent(obj, namedTypes) ==
    \E i \in requiredComponents(namedTypes) : obj.components[i + 1].type = "noValue"

\* map[key] of a dict given as <<key, type>> entries; NoSpec stands for the
\* KeyError
TypeMapGet(map, key) ==
    With({i \in 1..Len(map) : map[i][1] = key}, LAMBDA hits :
      IF hits = {} THEN NoSpec ELSE map[CHOOSE i \in hits : \A j \in hits : j <= i][2])

\* A resolver that trusts the slot's own map before the caller's
DefaultMapFirst(openTypes, namedType, governingValue) ==
    With(TypeMapGet(namedType.openType.typeMap, governingValue.value), LAMBDA own :
      IF own.typeId # "None" THEN own ELSE TypeMapGet(openTypes, governingValue.value))

\* openTypes[governingValue], on KeyError namedType.openType[governingValue];
\* NoSpec when that is a KeyError too.  An Integer is looked up by its number.
ResolveOpenType(openTypes, namedType, governingValue) ==
    With(TypeMapGet(openTypes, governingValue.value), LAMBDA given :
      IF given.typeId # "None" THEN given
      ELSE TypeMapGet(namedType.openType.typeMap, governingValue.value))

\* decodeFun(asSeekableStream(value.asOctets()), asn1Spec=openType, ...): the
\* decoder runs on a stream of its own that holds all of the slot's octets; the
\* cursor and the mark of the outer substrate stay as they are, and the log
\* keeps to the items of the outer substrate
DecodeOpenType(s, c, value, openType, allowEoo) ==
    IF value.type \notin OctetStringTypes \cup {"Any"}
    THEN Raise(AttributeError("asOctets"), c)
    ELSE With(decodeFun([s EXCEPT !.data = value.octets,
                                  !.hist = [i \in DOMAIN s.hist |-> Len(value.octets)]],
                        [c EXCEPT !.pos = 0],
                        CallArgs(openType, <<>>, 0, stDecodeTag, "None", allowEoo)),
              LAMBDA r :
           [r EXCEPT !.c.pos = c.pos, !.c.markedPosition = c.markedPosition,
                     !.c.log = c.log])

\* The first item the decoder of the slot's octets yields when that is the
\* marker of a short read
FirstMarker(s, c, value, openType) ==
    DecodeOpenType(s, c, value, openType, TRUE).c.out[Len(c.out) + 1]

\* The decoder of the slot's octets has yielded a marker of a short read and
\* the generator was resumed after it: lines 1043-1049 go on to store it
StoresMarker(s, c, value, openType) ==
    /\ Len(DecodeOpenType(s, c, value, openType, TRUE).c.out) > Len(c.out)
    /\ IsUnderrun(FirstMarker(s, c, value, openType))
    /\ Len(c.out) + 1 < Len(s.hist)

RECURSIVE OpenTypeElements(_, _, _, _, _, _)
\* for pos, containerElement in enumerate(containerValue): each element of a
\* SetOf or SequenceOf slot is decoded and put back in its place
OpenTypeElements(s, c, containerValue, openType, allowEoo, elem) ==
    IF elem >= Len(containerValue.components) THEN Ok(containerValue, c)
    ELSE Then(DecodeOpenType(s, c, containerValue.components[elem + 1], openType, allowEoo),
              LAMBDA r :
           OpenTypeElements(s, r.c,
                            [containerValue EXCEPT !.components[elem + 1] = r.v],
                            openType, allowEoo, elem + 1))

RECURSIVE OpenTypesLoop(_, _, _, _, _, _)
\* for idx, namedType in enumerate(namedTypes.namedTypes): a slot without an
\* open type, an absent optional slot and a slot whose governing value is in
\* neither map are passed over; any other slot is decoded anew.  The
\* indefinite decoder (allowEoo) stores inside its for-loop, hence nothing
\* when all it got is the end-of-octets sentinel, and the marker of a short
\* read once it is resumed after having yielded that marker.
OpenTypesLoop(s, c, namedTypes, asn1Object, allowEoo, idx) ==
    IF idx >= Len(namedTypes) THEN Ok(asn1Object, c)
    ELSE With(namedTypes[idx + 1], LAMBDA namedType :
         With(asn1Object.components[idx + 1], LAMBDA containerValue :
           IF ~namedType.openType.present
              \/ (namedType.isOptional /\ containerValue.type = "noValue")
           THEN OpenTypesLoop(s, c, namedTypes, asn1Object, allowEoo, idx + 1)
           ELSE With(ResolveOpenType(
                         s.options.openTypes, namedType,
                         asn1Object.components[
                             getPositionByName(namedTypes, namedType.openType.name) + 1]),
                     LAMBDA openType :
                  IF openType.typeId = "None"
                  THEN OpenTypesLoop(s, c, namedTypes, asn1Object, allowEoo, idx + 1)
                  ELSE IF containerValue.type \in {"SetOf", "SequenceOf"}
                  THEN Then(OpenTypeElements(s, c, containerValue, openType, allowEoo, 0),
                            LAMBDA r :
                         OpenTypesLoop(s, r.c, namedTypes,
                                       [asn1Object EXCEPT !.components[idx + 1] = r.v],
                                       allowEoo, idx + 1))
                  ELSE IF allowEoo /\ StoresMarker(s, c, containerValue, openType)
                  THEN Then(setComponentByPosition(
                                asn1Object, namedTypes, idx,
                                FirstMarker(s, c, containerValue, openType),
                                [c EXCEPT !.out = Append(@, FirstMarker(s, c, containerValue,
                                                                        openType))]),
                            LAMBDA p : OpenTypesLoop(s, p.c, namedTypes, p.v, allowEoo, idx))
                  ELSE Then(DecodeOpenType(s, c, containerValue, openType, allowEoo),
                            LAMBDA r :
                         IF r.v.type = "endOfOctets"
                         THEN OpenTypesLoop(s, r.c, namedTypes, asn1Object, allowEoo, idx + 1)
                         ELSE Then(setComponentByPosition(asn1Object, namedTypes, idx,
                                                          r.v, r.c), LAMBDA p :
                                OpenTypesLoop(s, p.c, namedTypes, p.v, allowEoo, idx + 1))))))

\* A decoder that never looks at the open-type options
OpenTypesNeverEnabled(opts) == FALSE

\* if openTypes or options.get('decodeOpenTypes', False)
OpenTypesEnabled(opts) == opts.openTypes # <<>> \/ opts.decodeOpenTypes

ConstructedPayloadDecoderBase_valueDecoder(d, s, c, a) ==
    IF a.tagSet[1].tagFormat # tagFormatConstructed
    THEN Raise(PyAsn1Error("Constructed tag format expected"), c)
    ELSE IF a.substrateFun # "None" THEN substrateCollector(s, c, a.length)
    ELSE IF a.asn1Spec.typeId = "None" THEN decodeComponentsSchemaless(d, s, c, a, FALSE)
    ELSE IF a.asn1Spec.typeId \in {"Sequence", "Set"}
    THEN LET namedTypes == a.asn1Spec.componentType
             isSetType == a.asn1Spec.typeId = "Set"
             isDeterministic == ~isSetType /\ ~hasOptionalOrDefault(namedTypes)
         IN Then(RecordLoop(s, c, a, isSetType, isDeterministic, c.pos,
                            [asn1Object |-> EmptyContainer(a.asn1Spec),
                             seenIndices |-> {}, idx |-> 0]), LAMBDA r :
              IF namedTypes # <<>> /\ HasUninitializedComponents(namedTypes, r.v.seenIndices)
              THEN Raise(PyAsn1Error("ASN.1 object has uninitialized components"), r.c)
              ELSE IF hasOpenTypes(namedTypes) /\ OpenTypesEnabled(s.options)
              THEN OpenTypesLoop(s, r.c, namedTypes, r.v.asn1Object, FALSE, 0)
              ELSE Ok(r.v.asn1Object, r.c))
    ELSE Then(ElementLoop(s, c, a, c.pos,
                          [asn1Object |-> EmptyContainer(a.asn1Spec), idx |-> 0]),
              LAMBDA r : Ok(r.v.asn1Object, r.c))

ConstructedPayloadDecoderBase_indefLenValueDecoder(d, s, c, a) ==
    IF a.tagSet[1].tagFormat # tagFormatConstructed
    THEN Raise(PyAsn1Error("Constructed tag format expected"), c)
    ELSE IF a.substrateFun # "None" THEN substrateCollector(s, c, a.length)
    ELSE IF a.asn1Spec.typeId = "None" THEN decodeComponentsSchemaless(d, s, c, a, TRUE)
    ELSE IF a.asn1Spec.typeId \in {"Sequence", "Set"}
    THEN LET namedTypes == a.asn1Spec.componentType
             isSetType == a.asn1Spec.typeId = "Set"
             isDeterministic == ~isSetType /\ ~hasOptionalOrDefault(namedTypes)
         IN Then(IndefRecordLoop(s, c, a, isSetType, isDeterministic,
                                 [asn1Object |-> EmptyContainer(a.asn1Spec),
                                  seenIndices |-> {}, idx |-> 0]), LAMBDA r :
              IF namedTypes # <<>> /\ HasUninitializedComponents(namedTypes, r.v.seenIndices)
              THEN Raise(PyAsn1Error("ASN.1 object has uninitialized components"), r.c)
              ELSE IF hasOpenTypes(namedTypes)
              THEN IF OpenTypesEnabled(s.options)
                   THEN OpenTypesLoop(s, r.c, namedTypes, r.v.asn1Object, TRUE, 0)
                   ELSE Ok(r.v.asn1Object, r.c)
              ELSE IF namedTypes # <<>> /\ isInconsistent(r.v.asn1Object, namedTypes)
              THEN Raise(PyAsn1Error("ASN.1 object is inconsistent"), r.c)
              ELSE Ok(r.v.asn1Object, r.c))
    ELSE Then(IndefElementLoop(s, c, a,
                               [asn1Object |-> EmptyContainer(a.asn1Spec), idx |-> 0]),
              LAMBDA r : Ok(r.v.asn1Object, r.c))

----------------------------------------------------------------------------
(* ChoicePayloadDecoder *)

\* asn1Object.componentTagMap / asn1Object.componentType.tagMapUnique
componentTagMap(spec) ==
    tagMapUnique(IF spec.typeId = "None" THEN <<>> ELSE spec.componentType)

\* protoComponent.clone(tagSet=tagSet) or asn1Spec.clone()
ChoiceObject(d, a) ==
    IF a.asn1Spec.typeId = "None"
    THEN Asn1Value(d.protoComponent, a.tagSet, [components |-> <<>>])
    ELSE EmptyContainer(a.asn1Spec)

\* component.effectiveTagSet, then asn1Object.setComponentByType
ChooseComponent(asn1Object, a, component, c) ==
    With(effectiveTagSet(component), LAMBDA eff :
      IF ~eff.ok THEN Raise(eff.err, c)
      ELSE setComponentByType(asn1Object,
                              IF a.asn1Spec.typeId = "None" THEN <<>>
                              ELSE a.asn1Spec.componentType,
                              eff.tagSet, component, c))

ChoicePayloadDecoder_valueDecoder(d, s, c, a) ==
    With(ChoiceObject(d, a), LAMBDA asn1Object :
      IF a.substrateFun # "None" THEN substrateCollector(s, c, a.length)
      ELSE Then(IF TagSetEq(asn1Object.tagSet, a.tagSet)
                THEN decodeFun(s, c, CallArgs(componentTagMap(a.asn1Spec), <<>>, 0,
                                              stDecodeTag, "None", FALSE))
                ELSE decodeFun(s, c, CallArgs(componentTagMap(a.asn1Spec), a.tagSet,
                                              a.length, a.state, "None", FALSE)),
                LAMBDA r : ChooseComponent(asn1Object, a, r.v, r.c)))

RECURSIVE ChoiceIndefLoop(_, _, _, _, _)
\* while True.  The body of "for component in iterator" runs for every item
\* of the iterator: a marker is yielded and, once the generator is resumed,
\* asked for its effectiveTagSet like any component
ChoiceIndefLoop(s, c, a, isTagged, asn1Object) ==
    With(IF isTagged
         THEN SingleItemDecoder(s, c, CallArgs(componentTagMap(a.asn1Spec), <<>>, 0,
                                               stDecodeTag, "None", TRUE))
         ELSE SingleItemDecoder(s, c, CallArgs(componentTagMap(a.asn1Spec), a.tagSet,
                                               a.length, a.state, "None", TRUE)),
         LAMBDA r :
      IF Len(r.c.out) > Len(c.out)
      THEN LET m == r.c.out[Len(c.out) + 1]
               c1 == [c EXCEPT !.out = Append(@, m), !.pos = m.pos,
                               !.log = SelectSeq(r.c.log,
                                                 LAMBDA e : e.yielded <= Len(c.out))]
           IN IF Suspended(s, c1) THEN Susp(c1)
              ELSE Raise(NoAttribute(m, "effectiveTagSet"), c1)
      ELSE IF r.k # "ok" THEN r
      ELSE IF r.v.type = "endOfOctets" THEN Ok(asn1Object, r.c)
      ELSE Then(ChooseComponent(asn1Object, a, r.v, r.c), LAMBDA p :
             IF ~isTagged THEN p
             ELSE ChoiceIndefLoop(s, r.c, a, isTagged, p.v)))

ChoicePayloadDecoder_indefLenValueDecoder(d, s, c, a) ==
    With(ChoiceObject(d, a), LAMBDA asn1Object :
      IF a.substrateFun # "None" THEN substrateCollector(s, c, a.length)
      ELSE ChoiceIndefLoop(s, c, a, TagSetEq(asn1Object.tagSet, a.tagSet), asn1Object))

----------------------------------------------------------------------------
(* concreteDecoder.valueDecoder / concreteDecoder.indefLenValueDecoder *)

valueDecoder(d, s, c, a) ==
    CASE d.cls = "RawPayloadDecoder" -> RawPayloadDecoder_valueDecoder(d, s, c, a)
      [] d.cls \in {"IntegerPayloadDecoder", "BooleanPayloadDecoder"} ->
             IntegerPayloadDecoder_valueDecoder(d, s, c, a)
      [] d.cls = "BitStringPayloadDecoder" -> BitStringPayloadDecoder_valueDecoder(d, s, c, a)
      [] d.cls = "OctetStringPayloadDecoder" ->
             OctetStringPayloadDecoder_valueDecoder(d, s, c, a)
      [] d.cls = "NullPayloadDecoder" -> NullPayloadDecoder_valueDecoder(d, s, c, a)
      [] d.cls = "ObjectIdentifierPayloadDecoder" ->
             ObjectIdentifierPayloadDecoder_valueDecoder(d, s, c, a)
      [] d.cls = "RealPayloadDecoder" -> RealPayloadDecoder_valueDecoder(d, s, c, a)
      [] d.cls = "ConstructedPayloadDecoderBase" ->
             ConstructedPayloadDecoderBase_valueDecoder(d, s, c, a)
      [] d.cls = "ChoicePayloadDecoder" -> ChoicePayloadDecoder_valueDecoder(d, s, c, a)
      [] d.cls = "AnyPayloadDecoder" -> AnyPayloadDecoder_valueDecoder(d, s, c, a)
      [] OTHER -> Raise(PyAsn1Error("SingleItemDecoder not implemented"), c)

\* Integer, Boolean, Null, ObjectIdentifier and Real inherit
\* AbstractPayloadDecoder.indefLenValueDecoder
indefLenValueDecoder(d, s, c, a) ==
    CASE d.cls = "RawPayloadDecoder" -> RawPayloadDecoder_indefLenValueDecoder(d, s, c, a)
      [] d.cls = "BitStringPayloadDecoder" ->
             BitStringPayloadDecoder_indefLenValueDecoder(d, s, c, a)
      [] d.cls = "OctetStringPayloadDecoder" ->
             OctetStringPayloadDecoder_indefLenValueDecoder(d, s, c, a)
      [] d.cls = "ConstructedPayloadDecoderBase" ->
             ConstructedPayloadDecoderBase_indefLenValueDecoder(d, s, c, a)
      [] d.cls = "ChoicePayloadDecoder" -> ChoicePayloadDecoder_indefLenValueDecoder(d, s, c, a)
      [] d.cls = "AnyPayloadDecoder" -> AnyPayloadDecoder_indefLenValueDecoder(d, s, c, a)
      [] OTHER -> Raise(PyAsn1Error("Indefinite length mode decoder not implemented"), c)

----------------------------------------------------------------------------
(* SingleItemDecoder.__call__ *)

\* A frame of the call: k is "run" while the state machine runs, and
\* otherwise how the call ended; l holds the locals of __call__
Frame(k, v, c, l) == [k |-> k, v |-> v, c |-> c, l |-> l]

\* The call ends the way r, the result of a read or of a payload decoder, did
Leave(r, l) == Frame(r.k, r.v, r.c, l)

Enter(f, st) == [f EXCEPT !.l.path = Append(@, st)]

RECURSIVE LongTagId(_, _, _)
\* while True of the long tag form: seven bits of the tag id per octet
LongTagId(s, c, tagId) ==
    LET rd == readFromStream(s, c, 1)
    IN IF rd.k # "ok" THEN rd
       ELSE LET integerTag == rd.v[1]
                id == tagId * 128 + (integerTag % 128)
            IN IF integerTag < 128 THEN Ok(id, rd.c) ELSE LongTagId(s, rd.c, id)

\* A decoder that takes every first octet for a whole tag
NeverLongTag(firstOctet) == FALSE

\* tagId == 0x1F: the tag id is in the octets that follow
IsLongTag(firstOctet) == firstOctet % 32 = 31

\* if state is stDecodeTag
DecodeTag(s, f0) ==
    LET f == Enter(f0, stDecodeTag)
        rd == readFromStream(s, f.c, 1)
    IN IF rd.k # "ok" THEN Leave(rd, f.l)
       ELSE LET firstOctet == rd.v[1]
                cached == firstOctet \in DOMAIN rd.c.tagCache
                tagClass == (firstOctet \div 64) * 64
                tagFormat == ((firstOctet \div 32) % 2) * 32
                isShortTag == cached \/ ~IsLongTag(firstOctet)
                lng == IF isShortTag THEN Ok(firstOctet % 32, rd.c)
                       ELSE LongTagId(s, rd.c, 0)
            IN IF lng.k # "ok" THEN Leave(lng, f.l)
               ELSE LET lastTag == IF cached THEN rd.c.tagCache[firstOctet]
                                   ELSE Tag(tagClass, tagFormat, lng.v)
                        c1 == IF isShortTag /\ ~cached
                              THEN [lng.c EXCEPT !.tagCache = (firstOctet :> lastTag) @@ @]
                              ELSE lng.c
                        fresh == f.l.tagSet = <<>>
                        hit == firstOctet \in DOMAIN c1.tagSetCache
                        tagSet == IF ~fresh THEN PrependTag(lastTag, f.l.tagSet)
                                  ELSE IF isShortTag /\ hit THEN c1.tagSetCache[firstOctet]
                                  ELSE TagSetOf(lastTag)
                        c2 == IF fresh /\ isShortTag /\ ~hit
                              THEN [c1 EXCEPT !.tagSetCache = (firstOctet :> tagSet) @@ @]
                              ELSE c1
                    IN Frame("run", noValue, c2,
                             [f.l EXCEPT !.tagSet = tagSet, !.state = stDecodeLength])

\* A decoder that takes the low seven bits of the first length octet for the
\* length whenever the form is definite
LowBitsAsLength(firstOctet, encodedLength) ==
    IF firstOctet = 128 THEN -1 ELSE firstOctet % 128

\* The length the first length octet and, in the long form, the octets read
\* after it stand for; -1 means indefinite
DecodedLength(firstOctet, encodedLength) ==
    IF firstOctet < 128 THEN firstOctet
    ELSE IF firstOctet > 128 THEN UnsignedOf(encodedLength)
    ELSE -1

\* A decoder that takes the indefinite length whatever the codec supports
IndefiniteTolerated(s, length) == FALSE

\* length == -1 and not self.supportIndefLength
IndefiniteRefused(s, length) == length = -1 /\ ~s.supportIndefLength

\* if state is stDecodeLength
DecodeLength(s, f0) ==
    LET f == Enter(f0, stDecodeLength)
        rd == readFromStream(s, f.c, 1)
    IN IF rd.k # "ok" THEN Leave(rd, f.l)
       ELSE LET firstOctet == rd.v[1]
                size == firstOctet % 128
                enc == IF firstOctet > 128 THEN readFromStream(s, rd.c, size)
                       ELSE Ok(<<>>, rd.c)
            IN IF enc.k # "ok" THEN Leave(enc, f.l)
               ELSE LET length == DecodedLength(firstOctet, enc.v)
                    IN IF IndefiniteRefused(s, length)
                       THEN Frame("raise",
                                  PyAsn1Error("Indefinite length encoding not supported by this codec"),
                                  enc.c, f.l)
                       ELSE Frame("run", noValue, enc.c,
                                  [f.l EXCEPT !.length = length, !.state = stGetValueDecoder])

\* if state is stGetValueDecoder
GetValueDecoder(s, f0) ==
    LET f == Enter(f0, stGetValueDecoder)
    IN [f EXCEPT !.l.state = IF f.l.asn1Spec.typeId = "None"
                             THEN stGetValueDecoderByTag
                             ELSE stGetValueDecoderByAsn1Spec]

\* if state is stGetValueDecoderByTag
GetValueDecoderByTag(s, f0) ==
    LET f == Enter(f0, stGetValueDecoderByTag)
        byTagSet == TAG_MAP(f.l.tagSet)
        byBaseTag == TAG_MAP(SubSeq(f.l.tagSet, 1, 1))
    IN IF byTagSet.cls # "None"
       THEN [f EXCEPT !.l.concreteDecoder = byTagSet, !.l.state = stDecodeValue]
       ELSE IF byBaseTag.cls # "None"
       THEN [f EXCEPT !.l.concreteDecoder = byBaseTag, !.l.state = stDecodeValue]
       ELSE [f EXCEPT !.l.concreteDecoder = NoDecoder, !.l.state = stTryAsExplicitTag]

\* if state is stGetValueDecoderByAsn1Spec
GetValueDecoderByAsn1Spec(s, f0) ==
    LET f == Enter(f0, stGetValueDecoderByAsn1Spec)
        spec == f.l.asn1Spec
        chosenSpec == IF spec.typeId = "TagMap" THEN TagMapGet(spec, f.l.tagSet)
                      ELSE IF TagSetEq(f.l.tagSet, spec.tagSet)
                              \/ TagMapContains(TagMapOf(spec), f.l.tagSet)
                      THEN spec
                      ELSE NoSpec
        byTypeId == TYPE_MAP(chosenSpec.typeId)
        concreteDecoder == IF byTypeId.cls # "None" THEN byTypeId
                           ELSE TAG_MAP(BaseTagSet(chosenSpec.typeId))
    IN IF chosenSpec.typeId = "NegativeKey"
       THEN Frame("raise", PyAsn1Error("Key in negative map"), f.c, f.l)
       ELSE IF chosenSpec.typeId # "None" /\ concreteDecoder.cls # "None"
       THEN [f EXCEPT !.l.concreteDecoder = concreteDecoder,
                      !.l.asn1Spec = chosenSpec, !.l.state = stDecodeValue]
       ELSE [f EXCEPT !.l.concreteDecoder = NoDecoder, !.l.state = stTryAsExplicitTag]

\* What the log keeps of a single-item decode whose payload decoder returned
LogEntry(s, f, original_position, r) ==
    [first |-> f.l.first, markedPosition |-> f.l.markedPosition,
     tagSet |-> f.l.tagSet, length |-> f.l.length,
     original_position |-> original_position, end |-> r.c.pos,
     asn1Spec |-> f.l.asn1Spec, cls |-> f.l.concreteDecoder.cls,
     value |-> r.v, yielded |-> Len(r.c.out), path |-> f.l.path]

\* A decoder that never compares what was read with the declared length
NoLengthCheck(bytesRead, length) == FALSE

\* bytesRead != length, for the definite form
LengthMismatch(bytesRead, length) == bytesRead # length

\* if state is stDecodeValue
DecodeValue(s, f0) ==
    LET f == Enter(f0, stDecodeValue)
        original_position == f.c.pos
        a == CallArgs(f.l.asn1Spec, f.l.tagSet, f.l.length, stGetValueDecoder,
                      f.l.substrateFun, FALSE)
    IN With(IF f.l.length = -1
            THEN indefLenValueDecoder(f.l.concreteDecoder, s, f.c, a)
            ELSE valueDecoder(f.l.concreteDecoder, s, f.c, a), LAMBDA r :
         IF r.k # "ok" THEN Leave(r, f.l)
         ELSE IF f.l.length # -1 /\ LengthMismatch(r.c.pos - original_position, f.l.length)
         THEN Frame("raise", PyAsn1Error("Read bytes instead of expected"), r.c, f.l)
         ELSE Frame("ok", r.v,
                    [r.c EXCEPT !.log = Append(@, LogEntry(s, f, original_position, r))],
                    [f.l EXCEPT !.value = r.v, !.state = stStop]))

\* A decoder that takes any constructed tag for an explicit tag
AnyConstructedTag(tagSet) ==
    tagSet # <<>> /\ tagSet[1].tagFormat = tagFormatConstructed

\* tagSet and tagSet[0].tagFormat == tagFormatConstructed and
\* tagSet[0].tagClass != tagClassUniversal
AssumeExplicitTagging(tagSet) ==
    /\ tagSet # <<>>
    /\ tagSet[1].tagFormat = tagFormatConstructed
    /\ tagSet[1].tagClass # tagClassUniversal

\* if state is stTryAsExplicitTag
TryAsExplicitTag(s, f0) ==
    LET f == Enter(f0, stTryAsExplicitTag)
    IN IF AssumeExplicitTagging(f.l.tagSet)
       THEN [f EXCEPT !.l.concreteDecoder = rawPayloadDecoder, !.l.state = stDecodeValue]
       ELSE [f EXCEPT !.l.concreteDecoder = NoDecoder, !.l.state = defaultErrorState]

\* if state is stDumpRawValue
DumpRawValue(s, f0) ==
    LET f == Enter(f0, stDumpRawValue)
    IN [f EXCEPT !.l.concreteDecoder = defaultRawDecoder, !.l.state = stDecodeValue]

\* if state is stErrorCondition
ErrorCondition(s, f0) ==
    LET f == Enter(f0, stErrorCondition)
    IN Frame("raise", PyAsn1Error("tagSet not in asn1Spec"), f.c, f.l)

\* What the caller sees of the frame the state machine ended in
Outcome(f) == [k |-> f.k, v |-> f.v, c |-> f.c]

RECURSIVE StateMachine(_, _)
\* while state is not stStop.  The body of the loop is a row of blocks "if
\* state is X:", each guarded by the state alone and each setting the state
\* of the block to run next.  Whether that block is met later in the same
\* pass or in the next one, the blocks run in the same order: the model runs
\* them one at a time, the block of the current state
StateMachine(s, f) ==
    CASE f.k # "run" -> Outcome(f)
      [] f.k = "run" /\ f.l.state = stStop -> Ok(f.l.value, f.c)
      [] f.k = "run" /\ f.l.state = stDecodeTag -> StateMachine(s, DecodeTag(s, f))
      [] f.k = "run" /\ f.l.state = stDecodeLength -> StateMachine(s, DecodeLength(s, f))
      [] f.k = "run" /\ f.l.state = stGetValueDecoder ->
             StateMachine(s, GetValueDecoder(s, f))
      [] f.k = "run" /\ f.l.state = stGetValueDecoderByTag ->
             StateMachine(s, GetValueDecoderByTag(s, f))
      [] f.k = "run" /\ f.l.state = stGetValueDecoderByAsn1Spec ->
             StateMachine(s, GetValueDecoderByAsn1Spec(s, f))
      [] f.k = "run" /\ f.l.state = stDecodeValue -> StateMachine(s, DecodeValue(s, f))
      [] f.k = "run" /\ f.l.state = stTryAsExplicitTag ->
             StateMachine(s, TryAsExplicitTag(s, f))
      [] f.k = "run" /\ f.l.state = stDumpRawValue -> StateMachine(s, DumpRawValue(s, f))
      [] f.k = "run" /\ f.l.state = stErrorCondition ->
             StateMachine(s, ErrorCondition(s, f))

\* A look for the sentinel that no call is exempt from
LookForEooAlways(s, c, a) ==
    LET rd == readFromStream(s, c, 2)
    IN IF rd.k # "ok" THEN rd
       ELSE IF rd.v = EOO_SENTINEL THEN Ok(endOfOctets, rd.c)
       ELSE Ok(noValue, [rd.c EXCEPT !.pos = @ - 2])

\* Look for end-of-octets sentinel
LookForEoo(s, c, a) ==
    IF a.allowEoo /\ s.supportIndefLength
    THEN LET rd == readFromStream(s, c, 2)
         IN IF rd.k # "ok" THEN rd
            ELSE IF rd.v = EOO_SENTINEL THEN Ok(endOfOctets, rd.c)
            ELSE Ok(noValue, [rd.c EXCEPT !.pos = @ - 2])
    ELSE Ok(noValue, c)

\* The locals of __call__ when the state machine starts at c.pos
Locals(c, a) ==
    [state |-> a.state, tagSet |-> a.tagSet, length |-> a.length,
     asn1Spec |-> a.asn1Spec, substrateFun |-> a.substrateFun,
     concreteDecoder |-> NoDecoder, value |-> noValue,
     first |-> IF a.state = stDecodeTag THEN c.pos ELSE -1,
     markedPosition |-> c.pos, path |-> <<>>]

SingleItemDecoder(s, c, a) ==
    With(LookForEoo(s, c, a), LAMBDA eoo :
      IF eoo.k # "ok" \/ eoo.v.type = "endOfOctets" THEN eoo
      ELSE StateMachine(s, Frame("run", noValue,
                                 [eoo.c EXCEPT !.markedPosition = eoo.c.pos],
                                 Locals(eoo.c, a))))

decodeFun(s, c, a) == Relay(s, SingleItemDecoder(s, c, a))

----------------------------------------------------------------------------
(* StreamingDecoder and Decoder *)

\* The context a StreamingDecoder starts with: a fresh single-item decoder
\* (empty caches) on a substrate at its first octet
NewContext ==
    [pos |-> 0, markedPosition |-> 0, out |-> <<>>, log |-> <<>>,
     tagCache |-> <<>>, tagSetCache |-> <<>>]

Run(st, c, exc) == [status |-> st, c |-> c, raised |-> exc]

\* An iterator that leaves its loop after the first item, whatever is left
\* in the substrate
StreamingDecoder_once(s, c, spec) ==
    With(SingleItemDecoder(s, c, CallArgs(spec, <<>>, 0, stDecodeTag, "None", FALSE)),
         LAMBDA r :
      IF r.k = "susp" THEN Run("suspended", r.c, noValue)
      ELSE IF r.k = "raise" THEN Run("raised", r.c, r.v)
      ELSE LET c1 == [r.c EXCEPT !.out = Append(@, r.v)]
           IN IF Suspended(s, c1) THEN Run("suspended", c1, noValue)
              ELSE Run("done", c1, noValue))

RECURSIVE StreamingDecoder_iter(_, _, _)
\* StreamingDecoder.__iter__: while True, every item of the single-item
\* decoder is yielded; once resumed after the last one, the loop is left when
\* the substrate is at its end
StreamingDecoder_iter(s, c, spec) ==
    With(SingleItemDecoder(s, c, CallArgs(spec, <<>>, 0, stDecodeTag, "None", FALSE)),
         LAMBDA r :
      IF r.k = "susp" THEN Run("suspended", r.c, noValue)
      ELSE IF r.k = "raise" THEN Run("raised", r.c, r.v)
      ELSE LET c1 == [r.c EXCEPT !.out = Append(@, r.v)]
           IN IF Suspended(s, c1) THEN Run("suspended", c1, noValue)
              ELSE IF isEndOfStream(s, c1) THEN Run("done", c1, noValue)
              ELSE StreamingDecoder_iter(s, c1, spec))

\* The iterator after it was resumed Len(history) times
Resume(data, history, spec, indef, opts) ==
    StreamingDecoder_iter(Substrate(data, history, indef, opts), NewContext, spec)

\* Decoder.__call__: the first item of the iterator over the whole input, a
\* marker raising SubstrateUnderrunError; the tail is what readFromStream
\* finds past the value, nothing when that raises EndOfStreamError; c is the
\* state the call leaves the substrate and the decoder's caches in
Decoder_call(data, spec, indef, opts) ==
    With(Resume(data, <<Len(data)>>, spec, indef, opts), LAMBDA run :
      IF run.status = "raised"
      THEN [raised |-> run.raised, value |-> noValue, tail |-> <<>>, c |-> run.c]
      ELSE IF IsUnderrun(run.c.out[1])
      THEN [raised |-> SubstrateUnderrunError("Short substrate on input"),
            value |-> noValue, tail |-> <<>>, c |-> run.c]
      ELSE [raised |-> noValue, value |-> run.c.out[1],
            tail |-> SubSeq(data, run.c.pos + 1, Len(data)), c |-> run.c])

----------------------------------------------------------------------------
(* The inputs and schemas the decoder is run on *)

\* A TLV in the definite and in the indefinite form
Def(tag, content) == <<tag, Len(content)>> \o content

Indef(tag, content) == <<tag, 128>> \o content \o EOO_SENTINEL

RECURSIVE Flatten(_)
Flatten(tlvs) == IF tlvs = <<>> THEN <<>> ELSE tlvs[1] \o Flatten(Tail(tlvs))

\* Integer 5, OctetString 07, Null
Leaves == {<<2, 1, 5>>, <<4, 1, 7>>, <<5, 0>>}

ChildLists == UNION {[1..k -> Leaves] : k \in 0..MaxChildren}

\* Sequence-tagged (30) and Set-tagged (31) TLVs over every list of children
Containers ==
    {Def(tag, Flatten(l)) : tag \in {48, 49}, l \in ChildLists}
        \cup {Indef(tag, Flatten(l)) : tag \in {48, 49}, l \in ChildLists}

\* [0] EXPLICIT wrappers of one inner TLV, one of them under a long tag
Wrappers ==
    {Def(160, x) : x \in Leaves} \cup {Indef(160, x) : x \in Leaves}
        \cup {<<191, 33, 3, 2, 1, 5>>, Def(160, Def(161, <<2, 1, 5>>)),
              Indef(160, Indef(161, <<2, 1, 5>>))}

\* Strings in the primitive and in the constructed form, and other leaves
Strings ==
    {<<36, 128, 4, 2, 170, 187, 4, 2, 204, 221, 0, 0>>, Def(36, <<4, 1, 7, 4, 1, 8>>),
     <<3, 2, 0, 170>>, <<3, 2, 4, 160>>, Def(35, <<3, 2, 0, 170, 3, 2, 4, 160>>),
     Indef(35, <<3, 2, 0, 170>>), <<6, 3, 42, 134, 72>>, <<1, 1, 255>>,
     <<9, 3, 128, 255, 3>>, <<2, 2, 255, 127>>,
     Def(44, <<12, 1, 65, 12, 1, 66>>), Indef(44, <<12, 1, 65, 12, 1, 66>>),
     Indef(36, <<>>), Indef(36, <<4, 1, 7, 4, 0, 4, 1, 8>>),
     <<3, 1, 0>>, <<3, 2, 7, 128>>, <<3, 3, 1, 170, 254>>}

\* TLVs whose length is in the long form, on one and on two octets, and an
\* explicit-tag wrapper whose tag id, 128, takes two octets
LongForms ==
    {<<4, 129, 1, 7>>, <<4, 130, 0, 1, 7>>, <<48, 129, 3, 2, 1, 5>>,
     <<48, 130, 0, 5, 2, 1, 5, 5, 0>>, <<191, 129, 0, 3, 2, 1, 5>>}

\* Containers inside containers
Nested ==
    {Def(48, x) : x \in {<<48, 0>>, Def(48, <<2, 1, 5>>), Indef(160, <<2, 1, 5>>),
                            <<2, 1, 5>> \o Indef(49, <<5, 0, 5, 0>>)}}
        \cup {Indef(49, x) : x \in {<<49, 128, 0, 0>>, Indef(48, <<2, 1, 5>>),
                                     Def(160, <<4, 1, 7>>)}}

\* The lists that hold the members of l in every order
Permuted(l) == {[i \in DOMAIN l |-> l[p[i]]] : p \in Permutations(DOMAIN l)}

\* Set-tagged TLVs of an Integer, an OctetString and a Null in every order
FullSets ==
    {Def(49, Flatten(m)) : m \in Permuted(<<<<2, 1, 5>>, <<4, 1, 7>>, <<5, 0>>>>)}
        \cup {Indef(49, <<5, 0, 4, 1, 7, 2, 1, 5>>)}

\* Set-tagged TLVs in which two children bear the same tag, Integer 5 and
\* Integer 6, beside a Null
DuplicateSlots ==
    {Def(49, <<2, 1, 5, 2, 1, 6, 5, 0>>), Def(49, <<2, 1, 6, 2, 1, 5, 5, 0>>),
     Indef(49, <<2, 1, 5, 5, 0, 2, 1, 6>>)}

\* Sequence-tagged TLVs with one child more than the catalogues of two and
\* of three slots take
Excess ==
    {Def(48, <<2, 1, 5, 5, 0, 5, 0>>), Indef(48, <<2, 1, 5, 5, 0, 5, 0>>),
     Def(48, <<2, 1, 5, 4, 1, 7, 5, 0, 2, 1, 5>>),
     Indef(48, <<2, 1, 5, 4, 1, 7, 5, 0, 2, 1, 5>>)}

\* Sequence-tagged TLVs of an Integer that governs and what it governs: the
\* Integer 6 before a Null and before an OctetString, the Integer 5 before a
\* Set-tagged TLV of two Nulls and of an OctetString
Governed ==
    {Def(48, <<2, 1, 6, 5, 0>>), Indef(48, <<2, 1, 6, 5, 0>>), Def(48, <<2, 1, 6, 4, 1, 7>>),
     Def(48, <<2, 1, 5>> \o Def(49, <<5, 0, 5, 0>>)),
     Indef(48, <<2, 1, 5>> \o Def(49, <<4, 1, 7>>))}

\* ObjectIdentifiers whose first sub-identifier is 39, 40, 79, 80, 1079 and
\* 16385, the last one with the octet 0x80 inside the sub-identifier
ObjectIdentifiers ==
    {<<6, 1, 39>>, <<6, 1, 40>>, <<6, 2, 79, 3>>, <<6, 1, 80>>, <<6, 2, 136, 55>>,
     <<6, 3, 129, 128, 1>>}

\* Integers, Enumerateds and Booleans of no, one and two content octets, of
\* either sign
Numbers ==
    {<<2, 0>>, <<2, 1, 128>>, <<2, 1, 255>>, <<2, 2, 0, 128>>, <<2, 2, 128, 0>>,
     <<10, 1, 3>>, <<10, 1, 254>>, <<10, 0>>, <<1, 1, 0>>, <<1, 0>>, <<1, 2, 0, 1>>,
     <<1, 1, 128>>}

\* Binary Reals of the bases 8 and 16: exponents 2, -2 and 256, the last one
\* in two octets; one with the length of the exponent in an octet of its
\* own; one with the sign bit and a scale factor
BinaryReals ==
    {<<9, 3, 144, 2, 3>>, <<9, 3, 160, 254, 1>>, <<9, 4, 161, 1, 0, 5>>,
     <<9, 4, 147, 1, 2, 7>>, <<9, 3, 228, 1, 3>>}

\* Encodings whose fragments and children are as the types prescribe
WellFormed ==
    Leaves \cup Containers \cup Wrappers \cup Strings \cup Nested \cup LongForms
        \cup FullSets \cup Excess \cup Governed \cup ObjectIdentifiers \cup Numbers
        \cup BinaryReals

\* Primitive tags with the indefinite length: an OctetString, a BitString and
\* a UTF8String around a fragment, a Null and a Boolean around nothing
PrimitiveIndefinite ==
    {Indef(4, <<4, 1, 7>>), Indef(3, <<3, 2, 0, 170>>), Indef(12, <<12, 1, 65>>),
     Indef(5, <<>>), Indef(1, <<>>)}

\* BitStrings that break a rule: a fragment, the first or the last one, whose
\* count of trailing bits is over 7; a constructed form without content; a
\* fragment that is not the last and has trailing bits
BadBitStrings ==
    {Def(35, <<3, 2, 8, 170>>), Indef(35, <<3, 2, 0, 170, 3, 2, 9, 0>>),
     Indef(35, <<3, 2, 8, 170, 3, 2, 0, 170>>), <<35, 0>>,
     Def(35, <<3, 2, 4, 160, 3, 2, 0, 170>>), Indef(35, <<3, 2, 4, 160, 3, 2, 0, 170>>)}

\* ObjectIdentifiers without content and with a sub-identifier, the first or
\* a later one, that begins with the octet 0x80
BadObjectIdentifiers ==
    {<<6, 0>>, <<6, 1, 128>>, <<6, 2, 128, 1>>, <<6, 3, 42, 128, 1>>, <<6, 3, 42, 128, 129>>}

\* Nulls with content and Nulls in the constructed form
BadNulls == {<<5, 1, 0>>, <<5, 2, 0, 0>>, <<37, 0>>, Def(37, <<5, 0>>), Indef(37, <<>>)}

\* Integers, Enumerateds and Booleans in the constructed form
BadNumbers == {Def(34, <<2, 1, 5>>), <<34, 1, 5>>, <<42, 0>>, <<33, 1, 255>>, Indef(34, <<2, 1, 5>>)}

\* Binary Reals whose base bits are 3: a whole one, one without mantissa,
\* one without exponent, one whose exponent has no octets
BadReals == {<<9, 3, 176, 1, 1>>, <<9, 2, 176, 1>>, <<9, 1, 176>>, <<9, 3, 179, 0, 1>>,
             <<9, 3, 240, 255, 3>>}

\* The octets 00 00 where no indefinite form is open: on their own, and in the
\* content of a definite TLV that stands alone or in an indefinite one
StrayEndOfContents ==
    {<<0, 0>>, Def(48, <<0, 0>>), Def(48, <<2, 1, 5, 0, 0>>), Def(49, <<0, 0, 5, 0>>),
     Indef(48, Def(48, <<0, 0>>)), Indef(48, Def(49, <<5, 0, 0, 0>>))}

\* Records of an Integer 5 and a constructed OctetString whose fragment
\* declares more content than the OctetString has
ShortBlobs == {Def(48, <<2, 1, 5, 36, 3, 4, 5, 7>>), Indef(48, <<2, 1, 5, 36, 3, 4, 5, 7>>)}

\* Encodings that break a rule: a declared length its content does not fill
\* or overruns, a wrapper of two inner TLVs or of none, an unfinished
\* sub-identifier, an
\* empty BitString, unknown tags, a primitive indefinite form, a constructed
\* BitString whose fragment is constructed and indefinite
Malformed ==
    {<<48, 2, 2, 1, 5>>, <<48, 4, 2, 1, 5>>, <<160, 2, 2, 1, 5>>, <<160, 5, 2, 1, 5, 5, 0>>,
     <<48, 5, 48, 2, 2, 1, 5>>, <<6, 1, 129>>, <<3, 0>>, <<3, 1, 8>>, <<128, 1, 5>>,
     <<14, 1, 0>>, <<46, 0>>, <<2, 128, 0, 0>>, <<9, 2, 4, 49>>,
     Indef(160, <<2, 1, 5, 4, 1, 7>>), Indef(35, Indef(35, <<3, 2, 0, 170>>)),
     Indef(36, Indef(36, <<4, 1, 7>>))}
        \cup PrimitiveIndefinite \cup {Indef(160, <<>>)} \cup DuplicateSlots
        \cup BadBitStrings \cup BadObjectIdentifiers \cup BadNulls \cup BadNumbers
        \cup BadReals \cup StrayEndOfContents \cup ShortBlobs

\* What may follow the first TLV of a one-shot input
Tails == UNION {[1..k -> {0, 2}] : k \in 0..MaxTail}

\* Every proper, non-empty prefix of an encoding
Prefixes(tlv) == {SubSeq(tlv, 1, k) : k \in 1..Len(tlv) - 1}

\* Substrates of several top-level TLVs
Streams ==
    {a \o b : a \in Leaves \cup {<<48, 0>>, Indef(160, <<2, 1, 5>>), Indef(48, <<5, 0>>)},
              b \in Leaves \cup {Def(49, <<2, 1, 5, 5, 0>>)}}
        \cup {<<2, 1, 5, 5, 0, 4, 1, 7>>, Def(48, <<2, 1, 5, 5, 0>>) \o Indef(48, <<2, 1, 5>>),
              <<191, 33, 3, 2, 1, 5, 191, 34, 3, 2, 1, 5>>,
              Def(48, <<2, 1, 5, 36, 3, 4, 5, 7>>) \o <<5, 0>>,
              Indef(48, <<2, 1, 5, 36, 3, 4, 5, 7>>) \o <<5, 0>>}

----------------------------------------------------------------------------
(* Schemas *)

Integer == SimpleSpec("Integer")

OctetString == SimpleSpec("OctetString")

Null == SimpleSpec("Null")

Catalogue ==
    <<NamedType("a", Integer), OptionalNamedType("b", OctetString), NamedType("c", Null)>>

\* SEQUENCE { a INTEGER, b OCTET STRING OPTIONAL, c NULL }
RecordSpec == TypeSpec("Sequence", BaseTagSet("Sequence"), Catalogue)

\* SEQUENCE { a INTEGER, c NULL }
PlainRecordSpec ==
    TypeSpec("Sequence", BaseTagSet("Sequence"),
             <<NamedType("a", Integer), NamedType("c", Null)>>)

\* SET { a INTEGER, b OCTET STRING OPTIONAL, c NULL }
SetSpec == TypeSpec("Set", BaseTagSet("Set"), Catalogue)

\* SEQUENCE OF INTEGER
SequenceOfSpec == TypeSpec("SequenceOf", BaseTagSet("SequenceOf"), <<Integer>>)

\* CHOICE { a INTEGER, b OCTET STRING, s SEQUENCE OF INTEGER }
ChoiceSpec ==
    TypeSpec("Choice", <<>>,
             <<NamedType("a", Integer), NamedType("b", OctetString),
               NamedType("s", SequenceOfSpec)>>)

AnySpec == TypeSpec("Any", <<>>, <<>>)

\* CHOICE { n NULL, x ANY }, untagged
AnyChoiceSpec ==
    TypeSpec("Choice", <<>>, <<NamedType("n", Null), NamedType("x", AnySpec)>>)

\* SEQUENCE { id INTEGER, blob ANY DEFINED BY id }, the type map of blob
\* being {5: Null}
OpenRecordSpec ==
    TypeSpec("Sequence", BaseTagSet("Sequence"),
             <<NamedType("id", Integer),
               NamedTypeWith("blob", AnySpec, OpenType("id", <<<<5, Null>>>>))>>)

\* SEQUENCE { id INTEGER, blobs SET OF ANY DEFINED BY id }, with that map
OpenSetOfSpec ==
    TypeSpec("Sequence", BaseTagSet("Sequence"),
             <<NamedType("id", Integer),
               NamedTypeWith("blobs", TypeSpec("SetOf", BaseTagSet("SetOf"), <<AnySpec>>),
                             OpenType("id", <<<<5, Null>>>>))>>)

\* The open-type options a decode is called with: none, decodeOpenTypes
\* alone, and an openTypes map that has the governing value 5 or 6
OpenTypeOptions ==
    {NoOptions, [openTypes |-> <<>>, decodeOpenTypes |-> TRUE],
     [openTypes |-> <<<<5, OctetString>>>>, decodeOpenTypes |-> FALSE],
     [openTypes |-> <<<<6, OctetString>>>>, decodeOpenTypes |-> FALSE]}

\* The options a schema is decoded with: they make a difference only to a
\* schema that has an open type
OptionsFor(spec) ==
    IF spec \in {OpenRecordSpec, OpenSetOfSpec} THEN OpenTypeOptions ELSE {NoOptions}

\* The schemas an input is decoded with, besides none: those its first tag
\* can be decoded with
SpecsFor(data) ==
    {NoSpec} \cup
    CASE data[1] = 48 -> {RecordSpec, PlainRecordSpec, SequenceOfSpec, ChoiceSpec,
                          OpenRecordSpec, OpenSetOfSpec}
      [] data[1] = 49 -> {SetSpec}
      [] data[1] = 160 -> {ExplicitlyTagged(Integer, 0), ExplicitlyTagged(ChoiceSpec, 0)}
      [] data[1] \in {2, 4} -> {ChoiceSpec, AnySpec, AnyChoiceSpec}
      [] data[1] = 36 -> {OctetString}
      [] OTHER -> {}

----------------------------------------------------------------------------
(* The decoder at work *)

\* Octets handed to Decoder.__call__ at once
OneShotInputs ==
    {w \o tl : w \in WellFormed \cup Malformed, tl \in Tails}
        \cup UNION {Prefixes(w) : w \in WellFormed} \cup Streams

\* Octets written piecemeal to the stream a StreamingDecoder reads
StreamInputs == WellFormed \cup Malformed \cup Streams

Init ==
    /\ \E m \in {"stream", "oneshot"} :
         \E d \in IF m = "stream" THEN StreamInputs ELSE OneShotInputs :
           \E sp \in SpecsFor(d) :
             /\ mode = m
             /\ substrate = d
             /\ asn1Spec = sp
             /\ avail = IF m = "stream" THEN 0 ELSE Len(d)
             /\ options \in OptionsFor(sp)
    /\ supportIndefLength \in BOOLEAN
    /\ hist = <<>>
    /\ status = "new"
    /\ out = <<>>
    /\ pos = 0
    /\ markedPosition = 0
    /\ log = <<>>
    /\ tagCache = <<>>
    /\ raised = noValue
    /\ result = [value |-> noValue, tail |-> <<>>]

\* The writer puts one more octet into the stream once the reader has seen
\* what was there, or all the octets at once when it starts
Feed ==
    /\ mode = "stream"
    /\ status \in {"new", "suspended"}
    /\ avail < Len(substrate)
    /\ IF hist = <<>> THEN avail = 0 ELSE hist[Len(hist)] = avail
    /\ \E n \in {1} \cup (IF avail = 0 THEN {Len(substrate)} ELSE {}) : avail' = avail + n
    /\ UNCHANGED <<substrate, hist, asn1Spec, supportIndefLength, options, mode, status,
                   out, pos, markedPosition, log, tagCache, raised, result>>

\* next() on the iterator of StreamingDecoder: it runs until it yields an
\* item, raises or stops
IterNext ==
    /\ mode = "stream"
    /\ status \in {"new", "suspended"}
    /\ IF hist = <<>> THEN TRUE
       ELSE avail > hist[Len(hist)] \/ ~IsUnderrun(out[Len(out)])
    /\ \E run \in {Resume(substrate, Append(hist, avail), asn1Spec,
                          supportIndefLength, options)} :
          /\ hist' = Append(hist, avail)
          /\ status' = run.status
          /\ out' = run.c.out
          /\ pos' = run.c.pos
          /\ markedPosition' = run.c.markedPosition
          /\ log' = run.c.log
          /\ tagCache' = run.c.tagCache
          /\ raised' = run.raised
    /\ UNCHANGED <<substrate, avail, asn1Spec, supportIndefLength, options, mode, result>>

\* decode(substrate, asn1Spec): Decoder.__call__ on the whole input
Decode ==
    /\ mode = "oneshot"
    /\ status = "new"
    /\ \E r \in {Decoder_call(substrate, asn1Spec, supportIndefLength, options)} :
          /\ hist' = <<Len(substrate)>>
          /\ status' = IF r.raised.type = "noValue" THEN "returned" ELSE "raised"
          /\ out' = r.c.out
          /\ pos' = IF r.raised.type = "noValue" THEN Len(substrate) ELSE r.c.pos
          /\ markedPosition' = r.c.markedPosition
          /\ log' = r.c.log
          /\ tagCache' = r.c.tagCache
          /\ raised' = r.raised
          /\ result' = [value |-> r.value, tail |-> r.tail]
    /\ UNCHANGED <<substrate, avail, asn1Spec, supportIndefLength, options, mode>>

Next == Feed \/ IterNext \/ Decode

Spec == Init /\ [][Next]_vars

----------------------------------------------------------------------------
(* The encoding rules, read off the octets themselves (X.690 8.1)         *)

\* Number of identifier octets of the TLV at offset p, 0 when they are cut
RefTagLen(data, p) ==
    IF p >= Len(data) THEN 0
    ELSE IF data[p + 1] % 32 # 31 THEN 1
    ELSE LET ends == {k \in 1..Len(data) - p - 1 : data[p + 1 + k] < 128}
         IN IF ends = {} THEN 0 ELSE 1 + (CHOOSE k \in ends : \A j \in ends : k <= j)

\* Header of the TLV at offset p: its length in octets and the content
\* length it declares (-1 for the indefinite form); ok is FALSE when cut
RefHeader(data, p) ==
    LET tl == RefTagLen(data, p)
        bad == [ok |-> FALSE, hdr |-> 0, length |-> 0]
    IN IF tl = 0 \/ p + tl >= Len(data) THEN bad
       ELSE LET lo == data[p + tl + 1]
            IN IF lo < 128 THEN [ok |-> TRUE, hdr |-> tl + 1, length |-> lo]
               ELSE IF lo = 128 THEN [ok |-> TRUE, hdr |-> tl + 1, length |-> -1]
               ELSE IF p + tl + 1 + (lo - 128) > Len(data) THEN bad
               ELSE [ok |-> TRUE, hdr |-> tl + 1 + (lo - 128),
                     length |-> UnsignedOf(SubSeq(data, p + tl + 2, p + tl + 1 + (lo - 128)))]

RECURSIVE RefEnd(_, _)
RECURSIVE RefEoc(_, _)
\* Offset just past the TLV at offset p, -1 when the octets end before it
RefEnd(data, p) ==
    LET h == RefHeader(data, p)
    IN IF ~h.ok THEN -1
       ELSE IF h.length = -1 THEN RefEoc(data, p + h.hdr)
       ELSE IF p + h.hdr + h.length > Len(data) THEN -1
       ELSE p + h.hdr + h.length

\* Offset just past the end-of-contents octets that close the indefinite
\* form whose next child starts at offset q
RefEoc(data, q) ==
    IF q + 2 > Len(data) THEN -1
    ELSE IF SubSeq(data, q + 1, q + 2) = EOO_SENTINEL THEN q + 2
    ELSE LET e == RefEnd(data, q)
         IN IF e = -1 THEN -1 ELSE RefEoc(data, e)

----------------------------------------------------------------------------
(* Claims *)

\* C1: every definite-length TLV the single-item decoder has decoded, at any
\* nesting level, left the cursor at the content's start plus the declared
\* length, which is the first tag octet's position plus the header length
\* plus the declared length; a payload decoder that read another number of
\* content octets therefore never got its value logged or yielded.
C1_DefiniteLengthAdvance ==
    \A i \in 1..Len(log) :
        LET e == log[i]
        IN e.length # -1 =>
              /\ e.end = e.original_position + e.length
              /\ e.first # -1 =>
                    LET h == RefHeader(substrate, e.first)
                    IN h.ok /\ h.length = e.length /\ e.end = e.first + h.hdr + h.length

\* C1 at work: a definite TLV decoded inside another definite TLV
C1_Witness ==
    \E i, j \in 1..Len(log) :
        /\ log[i].length >= 0 /\ log[j].length > 0
        /\ log[i].first > log[j].first /\ log[j].first >= 0
        /\ log[i].end <= log[j].end
        /\ status \in {"returned", "done"}

\* C2: every indefinite-length TLV the single-item decoder has decoded, at
\* any nesting level, has the end-of-contents octets 00 00 of its own level as
\* the last octets consumed, the cursor being left right behind them.
C2_IndefiniteEndsAtSentinel ==
    \A i \in 1..Len(log) :
        LET e == log[i]
        IN e.length = -1 =>
              /\ e.end >= e.original_position + 2
              /\ SubSeq(substrate, e.end - 1, e.end) = EOO_SENTINEL
              /\ e.first # -1 => e.end = RefEnd(substrate, e.first)

\* C3: for a well-formed input that one-shot decode turns into a value, the
\* streaming iterator fed piecemeal (one octet at a time, resumed after each
\* underrun) ends with that same value as its last item, every item before
\* it being an underrun marker; and an underrun leaves the cursor where the
\* starved read began.
C3_StreamingEqualsOneShot ==
    LET r == Decoder_call(substrate, asn1Spec, supportIndefLength, options)
    IN (mode = "stream" /\ substrate \in WellFormed /\ r.raised.type = "noValue") =>
          /\ status # "raised"
          /\ status = "done" =>
                /\ out # <<>>
                /\ out[Len(out)] = r.value
                /\ \A i \in 1..Len(out) - 1 : IsUnderrun(out[i])
          /\ (status = "suspended" /\ IsUnderrun(out[Len(out)])) => out[Len(out)].pos = pos

\* The first TLV of the one-shot input, when it is there in full
FirstTlv == SubSeq(substrate, 1, RefEnd(substrate, 0))

\* The one-shot input is the beginning of a well-formed encoding that the
\* spec in use decodes
Truncated ==
    \E w \in WellFormed :
        /\ substrate \in Prefixes(w)
        /\ Decoder_call(w, asn1Spec, supportIndefLength, options).raised.type = "noValue"

\* C4: one-shot decode of a complete first TLV followed by octets T returns
\* the value that TLV decodes to on its own together with exactly T; and when
\* the input is such an encoding cut short before its first TLV is complete,
\* one-shot decode raises SubstrateUnderrunError.
C4_OneShotValueAndTail ==
    (mode = "oneshot" /\ status # "new") =>
        IF RefEnd(substrate, 0) = -1
        THEN Truncated => (status = "raised" /\ raised.type = "SubstrateUnderrunError")
        ELSE LET alone == Decoder_call(FirstTlv, asn1Spec, supportIndefLength, options)
             IN (FirstTlv \in WellFormed /\ alone.raised.type = "noValue") =>
                   /\ status = "returned"
                   /\ result.value = alone.value
                   /\ result.tail = SubSeq(substrate, RefEnd(substrate, 0) + 1, Len(substrate))

\* C5: in streaming decode no exception that leaves the iterator is a
\* SubstrateUnderrunError: an underrun only ever comes out as a yielded marker.
C5_UnderrunNeverRaised ==
    (mode = "stream" /\ status = "raised") => raised.type # "SubstrateUnderrunError"

RECURSIVE RefChildren(_, _, _)
\* Offsets of the TLVs lying one after another from offset q up to offset e
RefChildren(data, q, e) ==
    IF q >= e \/ RefEnd(data, q) = -1 THEN <<>>
    ELSE <<q>> \o RefChildren(data, RefEnd(data, q), e)

\* Offsets of the children of the constructed TLV at offset p
RefChildrenOf(data, p) ==
    LET h == RefHeader(data, p)
        e == RefEnd(data, p)
    IN IF e = -1 THEN <<>>
       ELSE RefChildren(data, p + h.hdr, IF h.length = -1 THEN e - 2 ELSE e)

\* The slots of a catalogue that are neither OPTIONAL nor DEFAULT, from 1
RequiredSlots(spec) ==
    {i \in 1..Len(spec.componentType) :
        ~spec.componentType[i].isOptional /\ ~spec.componentType[i].isDefaulted}

\* The decode in progress is that of a Sequence or Set with a catalogue
IsRecordSpec(spec) == spec.typeId \in {"Sequence", "Set"} /\ spec.componentType # <<>>

\* The slot type takes a child whose identifier octet is the given one: an
\* untagged type (Any) takes every child, another type the child under its tag
SlotTakes(slotType, octet) ==
    slotType.tagSet = <<>> \/ octet % 32 = slotType.tagSet[1].tagId

\* Some required slot's type is the type of no child of the first TLV
MissesRequired ==
    LET kids == RefChildrenOf(substrate, 0)
    IN \E i \in RequiredSlots(asn1Spec) :
          \A k \in 1..Len(kids) :
              ~SlotTakes(asn1Spec.componentType[i].asn1Object, substrate[kids[k] + 1])

\* C6: a Sequence or Set decoded with a spec whose catalogue is not empty,
\* in the definite and in the indefinite form, is yielded only with every
\* required slot holding a decoded child (or, for a slot with an open-type
\* hook, what that child was decoded anew to); an input whose children leave a
\* required slot empty yields no value, and once all its children have been
\* decoded (by a codec that takes the form the TLV is in) the error raised is
\* the one about uninitialized components.
C6_RequiredComponentsAssigned ==
    /\ \A i \in 1..Len(log) :
          LET e == log[i]
          IN (IsRecordSpec(e.asn1Spec) /\ e.cls = "ConstructedPayloadDecoderBase") =>
                \A j \in RequiredSlots(e.asn1Spec) :
                    \E k \in 1..i - 1 :
                        /\ \/ e.value.components[j] = log[k].value
                           \/ /\ e.asn1Spec.componentType[j].openType.present
                              /\ e.value.components[j].type # "noValue"
                        /\ log[k].first > e.first /\ log[k].end <= e.end
    /\ (IsRecordSpec(asn1Spec) /\ RefEnd(substrate, 0) # -1 /\ FirstTlv \in Containers
           /\ MissesRequired /\ status \in {"returned", "done", "raised"}) =>
          /\ status = "raised"
          /\ result.value.type = "noValue"
          /\ \A k \in 1..Len(out) : IsUnderrun(out[k])
          /\ (Len(log) = Len(RefChildrenOf(substrate, 0))
                /\ (supportIndefLength \/ RefHeader(substrate, 0).length # -1)) =>
                raised = PyAsn1Error("ASN.1 object has uninitialized components")

\* C6 at work: a record decoded in the definite form with its required
\* slots filled was yielded, and the next one, in the indefinite form and
\* short of a required child, was refused
C6_Witness ==
    /\ status = "raised"
    /\ raised = PyAsn1Error("ASN.1 object has uninitialized components")
    /\ \E i \in 1..Len(log) :
          /\ IsRecordSpec(log[i].asn1Spec)
          /\ log[i].cls = "ConstructedPayloadDecoderBase"
          /\ log[i].length > 0
          /\ \E k \in 1..Len(out) : out[k] = log[i].value
          /\ Len(substrate) > log[i].end + 1
          /\ substrate[log[i].end + 2] = 128

\* Offsets of the top-level TLVs of the substrate, and the k-th of them
TopLevel == RefChildren(substrate, 0, Len(substrate))

TopLevelTlv(k) == SubSeq(substrate, TopLevel[k] + 1, RefEnd(substrate, TopLevel[k]))

\* The substrate is n >= 1 well-formed TLVs one after another, each of which
\* the spec in use decodes, and was there in full before the first next()
FullyAvailable ==
    /\ mode = "stream" /\ hist # <<>> /\ hist[1] = Len(substrate)
    /\ TopLevel # <<>>
    /\ RefEnd(substrate, TopLevel[Len(TopLevel)]) = Len(substrate)
    /\ \A k \in 1..Len(TopLevel) :
          /\ TopLevelTlv(k) \in WellFormed
          /\ Decoder_call(TopLevelTlv(k), asn1Spec, supportIndefLength,
                          options).raised.type = "noValue"

\* C7: over a fully available substrate of n >= 1 well-formed top-level
\* TLVs the iterator yields one value per next(), the k-th being the value
\* the k-th TLV decodes to, never a marker and never an exception; resumed
\* after the n-th value it finds the end of the stream and stops, having
\* yielded exactly n values.
C7_TopLevelValuesInWireOrder ==
    FullyAvailable =>
        /\ status # "raised"
        /\ Len(out) <= Len(TopLevel)
        /\ \A k \in 1..Len(out) :
              out[k] = Decoder_call(TopLevelTlv(k), asn1Spec, supportIndefLength,
                                    options).value
        /\ status = "suspended" => Len(out) = Len(hist)
        /\ status = "done" <=> Len(hist) = Len(TopLevel) + 1
        /\ status = "done" => (Len(out) = Len(TopLevel) /\ pos = Len(substrate))

\* C7 at work: three TLVs, three different values, then the end
C7_Witness ==
    /\ FullyAvailable
    /\ status = "done"
    /\ Len(out) = 3
    /\ out[1] # out[2] /\ out[2] # out[3] /\ out[1] # out[3]

\* The log entry of the TLV decoded from offset p, among the first n
EntryAt(p, n) == log[CHOOSE j \in 1..n : log[j].first = p]

\* A decode of a Sequence-tagged or Set-tagged TLV without a schema
IsSchemaless(e) ==
    /\ e.asn1Spec.typeId = "None"
    /\ e.cls = "ConstructedPayloadDecoderBase"
    /\ e.first >= 0

C9_SchemalessAlwaysContainer ==
    \A i \in 1..Len(log) :
        LET e == log[i]
        IN IsSchemaless(e) =>
              /\ e.value.type \in {"Sequence", "Set", "SequenceOf", "SetOf"}
              /\ e.value.tagSet = e.tagSet

\* The tag a single identifier octet encodes
TagOfOctet(t) == Tag((t \div 64) * 64, ((t \div 32) % 2) * 32, t % 32)

\* The payload decoder the tag map holds for a tag set: the entry of the
\* whole tag set, else the entry of its first tag alone
ByTagMap(tagSet) ==
    IF TAG_MAP(tagSet).cls # "None" THEN TAG_MAP(tagSet) ELSE TAG_MAP(<<tagSet[1]>>)

\* C10: without a spec the payload decoder is the tag map's entry for the
\* whole tag set, else its entry for the first tag alone; with neither, the
\* raw decoder takes the value for an explicit-tag wrapper and decodes the
\* inner TLV, when the wrapper holds one, under the wrapper's tag set (whose
\* value, the input being there in full, is the wrapper's), which happens
\* only under a constructed tag
\* that is not universal; a tag that is in neither case raises 'tagSet not in
\* asn1Spec' and no value comes of its TLV.
C10_SchemalessDecoderSelection ==
    /\ \A i \in 1..Len(log) :
          LET e == log[i]
          IN (e.asn1Spec.typeId = "None" /\ e.first >= 0) =>
                IF ByTagMap(e.tagSet).cls # "None" THEN e.cls = ByTagMap(e.tagSet).cls
                ELSE /\ e.cls = "RawPayloadDecoder"
                     /\ e.tagSet[1].tagFormat = tagFormatConstructed
                     /\ e.tagSet[1].tagClass # tagClassUniversal
                     /\ RefChildrenOf(substrate, e.first) # <<>> =>
                        \E j \in 1..i - 1 :
                           /\ log[j].first >= e.original_position /\ log[j].end <= e.end
                           /\ Tail(log[j].tagSet) = e.tagSet
                           /\ hist[1] = Len(substrate) => log[j].value = e.value
    /\ (asn1Spec.typeId = "None" /\ status \in {"returned", "done", "raised"}
           /\ RefEnd(substrate, 0) # -1 /\ substrate[1] % 32 # 31
           /\ TAG_MAP(<<TagOfOctet(substrate[1])>>).cls = "None"
           /\ (substrate[1] < 64 \/ (substrate[1] \div 32) % 2 = 0)) =>
          /\ raised = PyAsn1Error("tagSet not in asn1Spec")
          /\ log = <<>>
          /\ \A k \in 1..Len(out) : IsUnderrun(out[k])

\* C10 at work: an explicit-tag wrapper under a long tag, taken by the raw
\* decoder, around an Integer found by its first tag
C10_Witness ==
    \E i, j \in 1..Len(log) :
        /\ log[i].asn1Spec.typeId = "None" /\ log[i].cls = "RawPayloadDecoder"
        /\ log[i].tagSet[1].tagId > 30
        /\ log[j].cls = "IntegerPayloadDecoder" /\ Len(log[j].tagSet) = 2
        /\ TAG_MAP(log[j].tagSet).cls = "None"
        /\ log[j].value = log[i].value

\* The first length octet of the TLV at offset p
FirstLengthOctet(p) == substrate[p + RefTagLen(substrate, p) + 1]

\* Offset of the octet that follows the first length octet of the TLV at p
PastFirstLengthOctet(p) == p + RefTagLen(substrate, p) + 1

RECURSIVE BigEndian(_, _)
\* Value of the octets as a base-256 numeral, most significant octet first
BigEndian(octets, acc) ==
    IF octets = <<>> THEN acc ELSE BigEndian(Tail(octets), acc * 256 + Head(octets))

\* C11: for every TLV decoded from its tag on, with first length octet L0: if
\* L0 < 128 the length is L0 and the content starts right after that octet;
\* if L0 > 128 the next L0 - 128 octets (L0 & 0x7F) are consumed as well and
\* the length is their big-endian unsigned value; if L0 = 128 the length is
\* indefinite (-1) and the content starts right after that octet.
C11_LengthDecoding ==
    \A i \in 1..Len(log) :
        LET e == log[i]
            L0 == FirstLengthOctet(e.first)
            q == PastFirstLengthOctet(e.first)
        IN e.first # -1 =>
              /\ L0 < 128 => (e.length = L0 /\ e.original_position = q)
              /\ L0 > 128 =>
                    /\ e.original_position = q + (L0 - 128)
                    /\ e.length = BigEndian(SubSeq(substrate, q + 1, q + (L0 - 128)), 0)
              /\ L0 = 128 => (e.length = -1 /\ e.original_position = q)

\* C11 at work: a TLV with a length on two octets was decoded, and so were,
\* in a container with a length on one octet, children in the short form
C11_Witness ==
    /\ status \in {"returned", "done"}
    /\ \E i \in 1..Len(log) :
          /\ log[i].first # -1
          /\ FirstLengthOctet(log[i].first) = 130
          /\ log[i].length > 0
          /\ \E j \in 1..Len(log) :
                log[j].first > log[i].first /\ FirstLengthOctet(log[j].first) < 128

RECURSIVE Base128(_, _)
\* Value of the octets as a base-128 numeral made of their low seven bits,
\* most significant octet first
Base128(octets, acc) ==
    IF octets = <<>> THEN acc ELSE Base128(Tail(octets), acc * 128 + (Head(octets) % 128))

\* The tag the identifier octets at offset p encode (X.690 8.1.2)
RefTag(data, p) ==
    LET t == data[p + 1]
    IN IF t % 32 # 31 THEN TagOfOctet(t)
       ELSE Tag((t \div 64) * 64, ((t \div 32) % 2) * 32,
                Base128(SubSeq(data, p + 2, p + RefTagLen(data, p)), 0))

\* C14: whatever was decoded before on the same decoder, the tag of every TLV
\* decoded from its tag on is the one its identifier octets encode (class in
\* bits 7-6 of the first octet, format in bit 5, id in bits 4-0 or, these
\* being 11111, the base-128 value of the octets that follow up to the first
\* one with the high bit clear); the decoder's tag cache holds entries for
\* short-form first octets only, each being the tag that octet encodes.
C14_TagDecodingAndCache ==
    /\ \A i \in 1..Len(log) :
          log[i].first # -1 => log[i].tagSet[1] = RefTag(substrate, log[i].first)
    /\ \A o \in DOMAIN tagCache : o % 32 # 31 /\ tagCache[o] = TagOfOctet(o)

\* C14 at work: two TLVs under long tags with the same first octet and
\* different ids were decoded one after the other, each around a TLV under the
\* same short tag, which the cache holds
C14_Witness ==
    /\ status = "done"
    /\ 2 \in DOMAIN tagCache
    /\ \E i, j \in 1..Len(log) :
          /\ log[i].first # -1 /\ log[j].first > log[i].first
          /\ substrate[log[i].first + 1] = 191 /\ substrate[log[j].first + 1] = 191
          /\ log[i].tagSet[1].tagId # log[j].tagSet[1].tagId
          /\ \E k, l \in 1..Len(log) :
                /\ k # l /\ log[k].first # -1 /\ log[l].first # -1
                /\ substrate[log[k].first + 1] = 2 /\ substrate[log[l].first + 1] = 2

\* The branches of a Choice value that are set, from 1
ChosenBranches(v) == {k \in 1..Len(v.components) : v.components[k].type # "noValue"}

\* C15: every Choice value a decode with a Choice spec has produced, under an
\* explicit tag or untagged and in either form of length, has exactly one
\* branch set: the branch whose type owns the effective tag set of the child
\* decoded for it, which is the only TLV the Choice holds.
C15_ChoiceHasOneBranch ==
    \A i \in 1..Len(log) :
        LET e == log[i]
            set == ChosenBranches(e.value)
        IN (e.cls = "ChoicePayloadDecoder" /\ e.asn1Spec.typeId = "Choice") =>
              /\ Cardinality(set) = 1
              /\ \A k \in set :
                    /\ TagSetKey(effectiveTagSet(e.value.components[k]).tagSet)
                          \in PresentKeys(TagMapOf(e.asn1Spec.componentType[k].asn1Object))
                    /\ \E j \in 1..i - 1 :
                          /\ log[j].value = e.value.components[k]
                          /\ log[j].original_position >= e.original_position
                          /\ log[j].end <= e.end
              /\ (e.first # -1 /\ e.asn1Spec.tagSet # <<>>) =>
                    Len(RefChildrenOf(substrate, e.first)) = 1

\* The children of the first TLV, each as its octets
FirstTlvChildren ==
    LET kids == RefChildrenOf(substrate, 0)
    IN [k \in 1..Len(kids) |-> SubSeq(substrate, kids[k] + 1, RefEnd(substrate, kids[k]))]

\* The first TLV with its children put in the order m, in the form it has
Reencoded(m) ==
    IF RefHeader(substrate, 0).length = -1 THEN Indef(substrate[1], Flatten(m))
    ELSE Def(substrate[1], Flatten(m))

\* C16: a Set-tagged TLV that decode with the Set spec turned into a value
\* decodes to that same value whatever the wire order of its children is:
\* every encoding of the same children in another order that decodes at all
\* gives an equal Set value.
C16_SetOrderIndependent ==
    (mode = "oneshot" /\ status = "returned" /\ asn1Spec.typeId = "Set") =>
        \A m \in Permuted(FirstTlvChildren) :
            LET other == Decoder_call(Reencoded(m), asn1Spec, supportIndefLength, options)
            IN other.raised.type = "noValue" => other.value = result.value

\* Two children of the first TLV bear the same tag, so that the Set spec
\* sends both to one slot
DuplicateOccupancy ==
    LET kids == RefChildrenOf(substrate, 0)
    IN \E i, j \in 1..Len(kids) : i # j /\ substrate[kids[i] + 1] = substrate[kids[j] + 1]

\* C17: a Set-tagged TLV two of whose children go to the same slot of the
\* Set spec is refused: the decode raises and no value comes out, in one-shot
\* and in streaming decode, so no slot is overwritten by a later child.
C17_DuplicateSlotRefused ==
    (asn1Spec.typeId = "Set" /\ RefEnd(substrate, 0) # -1 /\ DuplicateOccupancy
        /\ (supportIndefLength \/ RefHeader(substrate, 0).length # -1)
        /\ status \in {"returned", "done", "raised"}) =>
        /\ status = "raised"
        /\ result.value.type = "noValue"
        /\ \A k \in 1..Len(out) : IsUnderrun(out[k])

\* The first k children of the first TLV fill the catalogue of the Sequence
\* spec up to its last slot, so that the child after them is one too many
FillsCatalogue(k) ==
    LET r == Decoder_call(Reencoded(SubSeq(FirstTlvChildren, 1, k)), asn1Spec,
                          supportIndefLength, options)
    IN /\ r.raised.type = "noValue"
       /\ r.value.components[Len(asn1Spec.componentType)].type # "noValue"

\* The first TLV carries more children than the Sequence spec has slots
CarriesExcess ==
    /\ asn1Spec.typeId = "Sequence"
    /\ RefEnd(substrate, 0) # -1
    /\ \E k \in 1..Len(FirstTlvChildren) - 1 : FillsCatalogue(k)

ExcessiveComponents == PyAsn1Error("Excessive components decoded")

\* C18: a Sequence-tagged TLV with more children than the Sequence spec has
\* slots is refused with the excess-components error and no value comes out,
\* the same in the definite and in the indefinite form.
C18_ExcessComponentsRefused ==
    (CarriesExcess /\ status \in {"returned", "done", "raised"}) =>
        /\ status = "raised"
        /\ raised = ExcessiveComponents
        /\ result.value.type = "noValue"
        /\ \A k \in 1..Len(out) : IsUnderrun(out[k])

\* The first value the decode gave, one-shot or streaming, if any
HasDecoded ==
    \/ mode = "oneshot" /\ status = "returned"
    \/ mode = "stream" /\ \E k \in 1..Len(out) : ~IsUnderrun(out[k])

FirstDecoded ==
    IF mode = "oneshot" THEN result.value
    ELSE out[CHOOSE k \in 1..Len(out) :
                 ~IsUnderrun(out[k]) /\ \A j \in 1..k - 1 : IsUnderrun(out[j])]

\* The first TLV as the schema in use decodes it when no open type is looked
\* at: the slot with the open-type hook holds the octets of its TLV
Unresolved == Decoder_call(FirstTlv, asn1Spec, supportIndefLength, NoOptions)

\* The type the governing value key stands for: the caller's map comes
\* first, then the map of the slot; NoSpec when neither has the key
GovernedType(key) ==
    LET own == asn1Spec.componentType[2].openType.typeMap
        given == {i \in 1..Len(options.openTypes) : options.openTypes[i][1] = key}
        default == {i \in 1..Len(own) : own[i][1] = key}
    IN IF given # {} THEN options.openTypes[CHOOSE i \in given : TRUE][2]
       ELSE IF default # {} THEN own[CHOOSE i \in default : TRUE][2]
       ELSE NoSpec

\* The raw octets the slot with the hook holds, one entry per value to decode
\* anew: those of the slot itself, or of each element when the slot is a
\* SET OF
GovernedOctets ==
    LET slot == Unresolved.value.components[2]
    IN IF asn1Spec.componentType[2].asn1Object.typeId = "SetOf"
       THEN [k \in 1..Len(slot.components) |-> slot.components[k].octets]
       ELSE <<slot.octets>>

\* What the decode of the octets o with the type the key stands for gives
Redecoded(o) ==
    Decoder_call(o, GovernedType(FirstTlvChildren[1][3]), supportIndefLength, options)

\* The slot after the resolution: every value decoded anew
Resolved ==
    LET new == [k \in 1..Len(GovernedOctets) |-> Redecoded(GovernedOctets[k]).value]
    IN IF asn1Spec.componentType[2].asn1Object.typeId = "SetOf"
       THEN [Unresolved.value EXCEPT !.components[2].components = new]
       ELSE [Unresolved.value EXCEPT !.components[2] = new[1]]

\* C19: a Sequence whose second slot has an open-type hook governed by its
\* first slot.  When neither an openTypes map nor decodeOpenTypes is given,
\* or when the governing value is in neither the caller's map nor the slot's
\* own map, the decode gives the value with the slot's raw octets in it,
\* unchanged.  Otherwise the type is the caller's map's entry for the
\* governing value, else the slot's own map's entry, and the slot (each element
\* of it, for a SET OF slot) holds what decoding its octets with that type
\* gives; when that decode fails, the whole decode raises and gives no value.
C19_OpenTypesResolved ==
    (asn1Spec \in {OpenRecordSpec, OpenSetOfSpec} /\ RefEnd(substrate, 0) # -1
        /\ status \in {"returned", "done", "raised"}
        /\ Unresolved.raised.type = "noValue") =>
        IF ~(options.openTypes # <<>> \/ options.decodeOpenTypes)
           \/ GovernedType(FirstTlvChildren[1][3]).typeId = "None"
        THEN /\ HasDecoded
             /\ FirstDecoded = Unresolved.value
             /\ asn1Spec = OpenRecordSpec =>
                   /\ FirstDecoded.components[2].type = "Any"
                   /\ RefHeader(substrate, RefChildrenOf(substrate, 0)[2]).length # -1 =>
                         FirstDecoded.components[2].octets = FirstTlvChildren[2]
        ELSE IF \A k \in 1..Len(GovernedOctets) :
                    Redecoded(GovernedOctets[k]).raised.type = "noValue"
        THEN HasDecoded /\ FirstDecoded = Resolved
        ELSE status = "raised" /\ ~HasDecoded

\* C19 at work: the caller's map and the slot's own map both have the
\* governing value 5, with different types, and the slot holds the
\* OctetString of the caller's map
C19_Witness ==
    /\ asn1Spec = OpenRecordSpec
    /\ options.openTypes = <<<<5, OctetString>>>>
    /\ HasDecoded
    /\ FirstDecoded.components[1].value = 5
    /\ FirstDecoded.components[2].type = "OctetString"
    /\ FirstDecoded.components[2].octets = <<7>>

\* The first TLV is a constructed OctetString (24) or UTF8String (2C) whose
\* fragments are primitive definite-length TLVs of the same type
FragmentsOfSameType ==
    /\ RefEnd(substrate, 0) # -1
    /\ substrate[1] \in {36, 44}
    /\ \A k \in 1..Len(FirstTlvChildren) :
          /\ FirstTlvChildren[k][1] = substrate[1] - 32
          /\ RefHeader(FirstTlvChildren[k], 0).length # -1

\* The payloads of the fragments, in wire order
FragmentPayloads ==
    [k \in 1..Len(FirstTlvChildren) |->
        SubSeq(FirstTlvChildren[k], RefHeader(FirstTlvChildren[k], 0).hdr + 1,
               Len(FirstTlvChildren[k]))]

\* The primitive encoding of the concatenated payloads, and its decode
PrimitiveForm == Def(substrate[1] - 32, Flatten(FragmentPayloads))

\* value == other of an octet string: the same type with the same octets
SameString(v, w) == v.type = w.type /\ v.octets = w.octets

\* C20: a constructed OctetString or UTF8String, definite or indefinite,
\* whose fragments are primitive TLVs of the same type decodes to the value
\* the primitive encoding of the fragments' payloads, concatenated in wire
\* order, decodes to.
C20_ConstructedStringIsConcatenation ==
    (FragmentsOfSameType /\ status \in {"returned", "done", "raised"}
        /\ (supportIndefLength \/ RefHeader(substrate, 0).length # -1)) =>
        LET primitive == Decoder_call(PrimitiveForm, asn1Spec, supportIndefLength, options)
        IN /\ primitive.raised.type = "noValue"
           /\ HasDecoded
           /\ SameString(FirstDecoded, primitive.value)
           /\ FirstDecoded.octets = Flatten(FragmentPayloads)

\* C20 at work: the fragments AA BB and CC DD of the indefinite form, and
\* the fragments 07 and 08 of the definite form
C20_Witness ==
    /\ FragmentsOfSameType /\ HasDecoded
    /\ Len(FirstTlvChildren) = 2
    /\ \/ RefHeader(substrate, 0).length = -1 /\ FirstDecoded.octets = <<170, 187, 204, 221>>
       \/ RefHeader(substrate, 0).length = 6 /\ FirstDecoded.octets = <<7, 8>>

\* C12: the indefinite length is taken only under a constructed tag: no TLV
\* with a primitive tag and the length octet 80 is ever decoded, whatever its
\* type, and an input that starts with such a TLV ends in an error without a
\* value having been yielded.
C12_IndefiniteOnlyConstructed ==
    /\ \A i \in 1..Len(log) :
          log[i].length = -1 => log[i].tagSet[1].tagFormat = tagFormatConstructed
    /\ (status \in {"returned", "done", "raised"} /\ Len(substrate) >= 2
           /\ substrate[1] % 32 # 31 /\ (substrate[1] \div 32) % 2 = 0
           /\ substrate[2] = 128) =>
          /\ status = "raised"
          /\ \A k \in 1..Len(out) : IsUnderrun(out[k])

RECURSIVE HasIndefinite(_, _)
\* The TLV at offset p, or a TLV inside it at whatever depth, is in the
\* indefinite form
HasIndefinite(data, p) ==
    \/ RefHeader(data, p).length = -1
    \/ /\ (data[p + 1] \div 32) % 2 = 1
       /\ \E k \in 1..Len(RefChildrenOf(data, p)) :
             HasIndefinite(data, RefChildrenOf(data, p)[k])

\* What stDecodeLength raises for the indefinite form in a strict codec
IndefiniteNotSupported ==
    PyAsn1Error("Indefinite length encoding not supported by this codec")

\* C13: a decoder without indefinite-length support decodes no TLV whose
\* length octet is 80, at any nesting level, and never meets an end-of-octets
\* sentinel; it refuses such a TLV right after the length octet, so that a
\* well-formed input decoded without a schema that holds one anywhere ends in
\* that error, with no payload decoder having returned for it or for a TLV
\* around it.
C13_StrictRefusesIndefinite ==
    ~supportIndefLength =>
        /\ \A i \in 1..Len(log) :
              /\ log[i].length # -1
              /\ log[i].first # -1 => substrate[PastFirstLengthOctet(log[i].first)] # 128
        /\ \A k \in 1..Len(out) : out[k].type # "endOfOctets"
        /\ raised = IndefiniteNotSupported =>
              /\ status = "raised"
              /\ substrate[pos] = 128
              /\ \A i \in 1..Len(log) : log[i].end < pos
        /\ (asn1Spec = NoSpec /\ status \in {"returned", "done", "raised"}
               /\ RefEnd(substrate, 0) # -1 /\ FirstTlv \in WellFormed
               /\ HasIndefinite(substrate, 0)) =>
              /\ raised = IndefiniteNotSupported
              /\ \A k \in 1..Len(out) : IsUnderrun(out[k])
              /\ RefHeader(substrate, 0).length = -1 =>
                    (log = <<>> /\ pos = RefHeader(substrate, 0).hdr)

\* C13 at work: the strict decoder refused an indefinite TLV that lies inside
\* a definite one, after a sibling had been decoded
C13_Witness ==
    /\ ~supportIndefLength
    /\ status = "raised" /\ raised = IndefiniteNotSupported
    /\ RefHeader(substrate, 0).length > 0
    /\ log # <<>>
    /\ pos > 4

\* The content octets of a TLV given as its octets
ContentOf(tlv) == SubSeq(tlv, RefHeader(tlv, 0).hdr + 1, RefEnd(tlv, 0))

\* Bit i, from 1, of a sequence of octets, the most significant bit first
BitAt(octets, i) == (octets[((i - 1) \div 8) + 1] \div Pow(2, 7 - ((i - 1) % 8))) % 2

\* The bits content octets stand for: those of the octets after the first
\* one, short of as many trailing bits as the first octet counts
BitsOfContent(content) ==
    [i \in 1..(8 * (Len(content) - 1) - content[1]) |-> BitAt(Tail(content), i)]

\* The first TLV is a BitString decoded without a spec, in the primitive
\* form (03) or in the constructed form (23) over primitive fragments
IsBitString ==
    /\ RefEnd(substrate, 0) # -1
    /\ asn1Spec.typeId = "None"
    /\ \/ substrate[1] = 3 /\ RefHeader(substrate, 0).length # -1
       \/ /\ substrate[1] = 35
          /\ \A k \in 1..Len(FirstTlvChildren) :
                FirstTlvChildren[k][1] = 3 /\ RefHeader(FirstTlvChildren[k], 0).length > 0

\* It has no content octet in the definite form, or its count of trailing
\* bits, or that of one of its fragments, is over 7
BadTrailingBits ==
    \/ RefHeader(substrate, 0).length = 0
    \/ substrate[1] = 3 /\ ContentOf(FirstTlv)[1] > 7
    \/ /\ substrate[1] = 35
       /\ \E k \in 1..Len(FirstTlvChildren) : ContentOf(FirstTlvChildren[k])[1] > 7

\* C21: a BitString whose count of trailing bits is over 7, in the primitive
\* form or in any fragment of the constructed form, definite or indefinite,
\* and a definite BitString without content octets, are refused with an error
\* and give no value; any other primitive BitString decodes to the bits of
\* the octets after the first one, short of the trailing bits the first
\* octet counts.
C21_BitStringTrailingBits ==
    (IsBitString /\ status \in {"returned", "done", "raised"}) =>
        IF BadTrailingBits
        THEN status = "raised" /\ ~HasDecoded /\ raised.type # "SubstrateUnderrunError"
        ELSE substrate[1] = 3 =>
                /\ HasDecoded
                /\ FirstDecoded.type = "BitString"
                /\ FirstDecoded.bits = BitsOfContent(ContentOf(FirstTlv))

\* A fragment of the constructed BitString that is not the last one counts
\* trailing bits
TrailingBitsBeforeLast ==
    /\ substrate[1] = 35
    /\ \E k \in 1..Len(FirstTlvChildren) - 1 : ContentOf(FirstTlvChildren[k])[1] > 0

\* C22: a constructed BitString, definite or indefinite, in which a fragment
\* other than the last one counts more than zero trailing bits is refused with
\* an error and gives no value.
C22_OnlyLastFragmentHasTrailingBits ==
    (IsBitString /\ TrailingBitsBeforeLast /\ status \in {"returned", "done", "raised"}) =>
        status = "raised" /\ ~HasDecoded

\* The number of octets of the first sub-identifier of the octets: the octets
\* up to the first one whose bit 8 is clear; 0 when there is none
SubIdLength(octets) ==
    IF \E k \in 1..Len(octets) : octets[k] < 128
    THEN CHOOSE k \in 1..Len(octets) :
             octets[k] < 128 /\ \A j \in 1..k - 1 : octets[j] >= 128
    ELSE 0

RECURSIVE SubIdentifiers(_)
\* The sub-identifiers the octets hold one after the other (X.690 8.19.2);
\* octets after the last finished sub-identifier are left out
SubIdentifiers(octets) ==
    IF SubIdLength(octets) = 0 THEN <<>>
    ELSE <<Base128(SubSeq(octets, 1, SubIdLength(octets)), 0)>>
             \o SubIdentifiers(SubSeq(octets, SubIdLength(octets) + 1, Len(octets)))

RECURSIVE SubIdBeginsWith0x80(_)
\* Some sub-identifier of the octets begins with the octet 0x80
SubIdBeginsWith0x80(octets) ==
    /\ octets # <<>>
    /\ \/ octets[1] = 128
       \/ /\ SubIdLength(octets) # 0
          /\ SubIdBeginsWith0x80(SubSeq(octets, SubIdLength(octets) + 1, Len(octets)))

\* The last sub-identifier of the octets is finished
SubIdsFinished(octets) == octets = <<>> \/ octets[Len(octets)] < 128

\* The first TLV is a whole primitive ObjectIdentifier decoded without a schema
IsObjectIdentifier ==
    /\ RefEnd(substrate, 0) # -1
    /\ asn1Spec.typeId = "None"
    /\ substrate[1] = 6
    /\ RefHeader(substrate, 0).length # -1

\* The arcs X.690 8.19.4 gives for the sub-identifiers: the first one is
\* split in two
ArcsOf(subIds) ==
    (IF subIds[1] < 40 THEN <<0, subIds[1]>>
     ELSE IF subIds[1] < 80 THEN <<1, subIds[1] - 40>>
     ELSE <<2, subIds[1] - 80>>) \o Tail(subIds)

\* C23: an ObjectIdentifier without content, or with a sub-identifier that
\* begins with the octet 0x80, is refused with a PyAsn1Error and gives no
\* value; content of finished sub-identifiers gives the arcs whose first two
\* are (0, s0) for s0 < 40, (1, s0 - 40) for 40 <= s0 < 80 and (2, s0 - 80)
\* for s0 >= 80, s0 being the first sub-identifier
C23_ObjectIdentifierArcs ==
    (IsObjectIdentifier /\ status \in {"returned", "done", "raised"}) =>
        IF ContentOf(FirstTlv) = <<>> \/ SubIdBeginsWith0x80(ContentOf(FirstTlv))
        THEN status = "raised" /\ ~HasDecoded /\ raised.type = "PyAsn1Error"
        ELSE SubIdsFinished(ContentOf(FirstTlv)) =>
                /\ HasDecoded
                /\ FirstDecoded.type = "ObjectIdentifier"
                /\ FirstDecoded.arcs = ArcsOf(SubIdentifiers(ContentOf(FirstTlv)))

C23_Witness ==
    /\ IsObjectIdentifier
    /\ HasDecoded
    /\ substrate[3] >= 128
    /\ FirstDecoded.arcs[1] = 2
    /\ Len(FirstDecoded.arcs) = 2

\* The first TLV is a whole TLV under the tag of Null, primitive or
\* constructed, decoded without a schema
IsNull ==
    /\ substrate # <<>>
    /\ substrate[1] \in {5, 37}
    /\ asn1Spec.typeId = "None"
    /\ RefEnd(substrate, 0) # -1

\* C24: a Null TLV gives the Null value exactly when its tag is primitive
\* and its declared length is 0; in every other case the decoding ends with
\* an error and no value
C24_NullIffPrimitiveAndEmpty ==
    (IsNull /\ status \in {"returned", "done", "raised"}) =>
        IF substrate[1] = 5 /\ RefHeader(substrate, 0).length = 0
        THEN HasDecoded /\ FirstDecoded.type = "Null"
        ELSE status = "raised" /\ ~HasDecoded

C24_Witness ==
    /\ IsNull
    /\ status = "raised"
    /\ ~HasDecoded
    /\ substrate[1] = 5
    /\ RefHeader(substrate, 0).length = 1

RECURSIVE TwosComplement(_)
\* The signed number the octets are in two's complement, most significant
\* octet first (X.690 8.3.3); 0 for no octets
TwosComplement(octets) ==
    IF octets = <<>> THEN 0
    ELSE IF Len(octets) = 1 THEN (IF octets[1] < 128 THEN octets[1] ELSE octets[1] - 256)
    ELSE 256 * TwosComplement(SubSeq(octets, 1, Len(octets) - 1)) + octets[Len(octets)]

\* The first TLV is a whole definite TLV under the tag of Integer, of
\* Enumerated or of Boolean, primitive or constructed, decoded without a
\* schema
IsNumber ==
    /\ substrate # <<>>
    /\ substrate[1] % 32 \in {1, 2, 10}
    /\ substrate[1] \div 64 = 0
    /\ asn1Spec.typeId = "None"
    /\ RefEnd(substrate, 0) # -1
    /\ RefHeader(substrate, 0).length # -1

\* C25: a primitive Integer or Enumerated gives the number its content is in
\* two's complement, 0 for no content; a Boolean gives 1 when that number is
\* not 0 and 0 when it is; the constructed form is refused
C25_IntegerIsTwosComplement ==
    (IsNumber /\ status \in {"returned", "done", "raised"}) =>
        IF substrate[1] >= 32
        THEN status = "raised" /\ ~HasDecoded
        ELSE /\ HasDecoded
             /\ FirstDecoded.value =
                    IF substrate[1] = 1
                    THEN (IF TwosComplement(ContentOf(FirstTlv)) # 0 THEN 1 ELSE 0)
                    ELSE TwosComplement(ContentOf(FirstTlv))
             /\ FirstDecoded.type = IF substrate[1] = 1 THEN "Boolean" ELSE "Integer"

C25_Witness ==
    /\ IsNumber
    /\ HasDecoded
    /\ substrate[1] = 2
    /\ Len(ContentOf(FirstTlv)) = 2
    /\ FirstDecoded.value = -32768

\* The first TLV is a whole primitive Real in the binary encoding, decoded
\* without a schema
IsBinaryReal ==
    /\ substrate # <<>>
    /\ substrate[1] = 9
    /\ asn1Spec.typeId = "None"
    /\ RefEnd(substrate, 0) # -1
    /\ RefHeader(substrate, 0).length > 0
    /\ ContentOf(FirstTlv)[1] >= 128

\* The base bits of the first content octet (X.690 8.5.7.2)
BaseBits == (ContentOf(FirstTlv)[1] \div 16) % 4

\* The octets of the exponent (X.690 8.5.7.4): one, two or three of them
\* after the first octet, or as many as the second octet tells
ExponentOctets ==
    LET content == ContentOf(FirstTlv)
    IN IF content[1] % 4 = 3
       THEN SubSeq(content, 3, 2 + (IF Len(content) > 1 THEN content[2] ELSE 0))
       ELSE SubSeq(content, 2, 2 + (content[1] % 4))

\* The exponent is whole and a mantissa follows it
HasExponentAndMantissa ==
    LET content == ContentOf(FirstTlv)
        skip == IF content[1] % 4 = 3
                THEN 2 + (IF Len(content) > 1 THEN content[2] ELSE 0)
                ELSE 2 + (content[1] % 4)
    IN ExponentOctets # <<>> /\ Len(content) > skip

\* C26: a binary Real whose base bits are 3 is refused with an error; base
\* bits 1 and 2 give a value in base 2 whose exponent is the encoded one
\* times 3 and times 4
C26_RealBaseBits ==
    (IsBinaryReal /\ status \in {"returned", "done", "raised"}) =>
        /\ BaseBits = 3 => status = "raised" /\ ~HasDecoded
        /\ (BaseBits \in {1, 2} /\ HasExponentAndMantissa) =>
              /\ HasDecoded
              /\ FirstDecoded.real.base = 2
              /\ FirstDecoded.real.exponent =
                     TwosComplement(ExponentOctets) * (IF BaseBits = 1 THEN 3 ELSE 4)

C26_Witness ==
    /\ IsBinaryReal
    /\ HasDecoded
    /\ BaseBits = 2
    /\ FirstDecoded.real.exponent = 1024

\* The position of the first tag octet of the TLV the i-th entry of the log
\* is about: where its call began to read when it decoded the tag itself,
\* and where the call that handed its tag and length over began when not
TagPositions(i) ==
    IF log[i].first # -1 THEN {log[i].first}
    ELSE {log[j].first : j \in {k \in i + 1..Len(log) :
                                    /\ log[k].first # -1
                                    /\ log[k].original_position = log[i].original_position
                                    /\ log[k].tagSet = log[i].tagSet}}

\* C27: the marked position a payload decoder finds is the position of the
\* first tag octet of its TLV, also in a call that was handed the tag and
\* the length; a definite untagged Any is therefore the whole TLV
C27_MarkedPositionIsTagPosition ==
    \A i \in 1..Len(log) :
        \A p \in TagPositions(i) :
            /\ log[i].markedPosition = p
            /\ (log[i].cls = "AnyPayloadDecoder" /\ log[i].length # -1
                    /\ log[i].asn1Spec.typeId = "Any" /\ log[i].asn1Spec.tagSet = <<>>) =>
                  log[i].value.octets = SubSeq(substrate, p + 1, log[i].end)

\* The look for the sentinel of a call entered at offset p of the whole
\* input, with or without the permission
EooCheck(p, allowEoo) ==
    LookForEoo(Substrate(substrate, <<Len(substrate)>>, supportIndefLength, options),
               [NewContext EXCEPT !.pos = p],
               CallArgs(NoSpec, <<>>, 0, stDecodeTag, "None", allowEoo))

\* Offsets of the definite TLVs that are the first TLV or a child of the
\* first TLV in the indefinite form
DefiniteNodes ==
    {q \in {0} \cup {RefChildrenOf(substrate, 0)[k] : k \in 1..Len(RefChildrenOf(substrate, 0))} :
        /\ RefHeader(substrate, q).length # -1
        /\ (q # 0 => RefHeader(substrate, 0).length = -1)
        /\ substrate[q + 1] \in {48, 49}}

\* The octets 00 00 stand where a child of a definite TLV begins, or where
\* the first TLV does
StraySentinel ==
    \/ Len(substrate) >= 2 /\ SubSeq(substrate, 1, 2) = EOO_SENTINEL
    \/ \E q \in DefiniteNodes :
          \E k \in 1..Len(RefChildrenOf(substrate, q)) :
              SubSeq(substrate, RefChildrenOf(substrate, q)[k] + 1,
                     RefChildrenOf(substrate, q)[k] + 2) = EOO_SENTINEL

\* C28: a call that may end on the sentinel and finds 00 00 next yields the
\* end-of-contents marker and is two octets further; any other call yields no
\* marker and stays where it was.  The permission is that of one call: 00 00
\* at the top or among the children of a definite TLV is no sentinel, and the
\* decode ends with an error and no value
C28_EndOfContentsOnlyWhereAllowed ==
    (RefEnd(substrate, 0) # -1 /\ status \in {"returned", "done", "raised"}) =>
        /\ supportIndefLength =>
              \A p \in 0..Len(substrate) - 2 : \A allowEoo \in BOOLEAN :
                  /\ EooCheck(p, allowEoo).k = "ok"
                  /\ IF allowEoo /\ SubSeq(substrate, p + 1, p + 2) = EOO_SENTINEL
                     THEN /\ EooCheck(p, allowEoo).v = endOfOctets
                          /\ EooCheck(p, allowEoo).c.pos = p + 2
                     ELSE /\ EooCheck(p, allowEoo).v # endOfOctets
                          /\ EooCheck(p, allowEoo).c.pos = p
        /\ StraySentinel => status = "raised" /\ ~HasDecoded

C28_Witness ==
    /\ supportIndefLength
    /\ status = "raised"
    /\ RefEnd(substrate, 0) # -1
    /\ StraySentinel
    /\ RefHeader(substrate, 0).length = -1
    /\ EooCheck(4, TRUE).v = endOfOctets
    /\ EooCheck(4, FALSE).c.pos = 4

\* The first TLV with the same children in the other form: the indefinite
\* one for a definite TLV and the definite one for an indefinite TLV
OtherForm ==
    IF RefHeader(substrate, 0).length = -1
    THEN Def(substrate[1], Flatten(FirstTlvChildren))
    ELSE Indef(substrate[1], Flatten(FirstTlvChildren))

\* decode() of the other form with the same spec and the same options
OtherFormDecoded == Decoder_call(OtherForm, asn1Spec, supportIndefLength, options)

\* The value is an ASN.1 value, no marker of a short read or of the end of
\* the contents, and so is each element of it when it is a SetOf or SequenceOf
FullyDecoded(value) ==
    /\ IsAsn1Item(value)
    /\ value.type \in {"SetOf", "SequenceOf"} =>
          \A k \in 1..Len(value.components) : IsAsn1Item(value.components[k])

\* The first TLV is a whole Sequence or Set made of whole children, decoded
\* with a spec that has a catalogue by a decoder that supports the
\* indefinite form
IsRecord ==
    /\ IsRecordSpec(asn1Spec)
    /\ supportIndefLength
    /\ RefEnd(substrate, 0) # -1
    /\ substrate[1] \in {48, 49}
    /\ Reencoded(FirstTlvChildren) = FirstTlv

\* The iterator over the octets, all of them buffered from the start, after
\* as many resumptions as the decode in progress has had
FullyBuffered(octets) ==
    Resume(octets, [i \in DOMAIN hist |-> Len(octets)], asn1Spec, supportIndefLength, options)

\* The values among the items: the markers of short reads are left out
ValuesOf(items) == SelectSeq(items, LAMBDA item : ~IsUnderrun(item))

\* C29: a Sequence or Set decoded with a record spec gives, in the definite
\* and in the indefinite form of the same children, records whose slots are
\* equal, the slots resolved through an open type among them; such a slot
\* (each element of a SetOf slot) holds a decoded value, never a marker, so
\* that after the same resumptions the two forms, fully buffered, have given
\* the same values and have ended alike
C29_DefiniteAndIndefiniteAgree ==
    /\ (IsRecord /\ HasDecoded) =>
          /\ OtherFormDecoded.raised.type = "noValue" =>
                OtherFormDecoded.value.components = FirstDecoded.components
          /\ \A j \in 1..Len(asn1Spec.componentType) :
                (asn1Spec.componentType[j].openType.present
                    /\ (options.openTypes # <<>> \/ options.decodeOpenTypes)
                    /\ FirstDecoded.components[j].type # "noValue") =>
                    FullyDecoded(FirstDecoded.components[j])
    /\ (IsRecord /\ hist # <<>>) =>
          /\ FullyBuffered(FirstTlv).status = FullyBuffered(OtherForm).status
          /\ ValuesOf(FullyBuffered(FirstTlv).c.out) = ValuesOf(FullyBuffered(OtherForm).c.out)

RECURSIVE Trail(_, _)
\* The frame the state machine ends in: how the call ended, the states it
\* went through and the state it was to go to next
Trail(s, f) ==
    CASE f.k # "run" -> f
      [] f.k = "run" /\ f.l.state = stStop -> Frame("ok", f.l.value, f.c, f.l)
      [] f.k = "run" /\ f.l.state = stDecodeTag -> Trail(s, DecodeTag(s, f))
      [] f.k = "run" /\ f.l.state = stDecodeLength -> Trail(s, DecodeLength(s, f))
      [] f.k = "run" /\ f.l.state = stGetValueDecoder -> Trail(s, GetValueDecoder(s, f))
      [] f.k = "run" /\ f.l.state = stGetValueDecoderByTag ->
             Trail(s, GetValueDecoderByTag(s, f))
      [] f.k = "run" /\ f.l.state = stGetValueDecoderByAsn1Spec ->
             Trail(s, GetValueDecoderByAsn1Spec(s, f))
      [] f.k = "run" /\ f.l.state = stDecodeValue -> Trail(s, DecodeValue(s, f))
      [] f.k = "run" /\ f.l.state = stTryAsExplicitTag -> Trail(s, TryAsExplicitTag(s, f))
      [] f.k = "run" /\ f.l.state = stDumpRawValue -> Trail(s, DumpRawValue(s, f))
      [] f.k = "run" /\ f.l.state = stErrorCondition -> Trail(s, ErrorCondition(s, f))

\* The frame the outermost single-item decode of decode(substrate, asn1Spec)
\* ends in
OutermostCall ==
    Trail(Substrate(substrate, <<Len(substrate)>>, supportIndefLength, options),
          Frame("run", noValue, NewContext,
                Locals(NewContext, CallArgs(asn1Spec, <<>>, 0, stDecodeTag, "None", FALSE))))

\* The steps from a state to the next one
StateOrder ==
    {<<stDecodeTag, stDecodeLength>>, <<stDecodeLength, stGetValueDecoder>>,
     <<stGetValueDecoder, stGetValueDecoderByTag>>,
     <<stGetValueDecoder, stGetValueDecoderByAsn1Spec>>,
     <<stGetValueDecoderByTag, stTryAsExplicitTag>>,
     <<stGetValueDecoderByAsn1Spec, stTryAsExplicitTag>>,
     <<stGetValueDecoderByTag, stDecodeValue>>,
     <<stGetValueDecoderByAsn1Spec, stDecodeValue>>,
     <<stTryAsExplicitTag, stDecodeValue>>, <<stTryAsExplicitTag, stErrorCondition>>}

\* The states are gone through in the forward order, each one once at most,
\* from DecodeTag or, in a call handed the tag and the length, from
\* GetValueDecoder
Forward(path) ==
    /\ path # <<>>
    /\ path[1] \in {stDecodeTag, stGetValueDecoder}
    /\ \A i \in 1..Len(path) - 1 : <<path[i], path[i + 1]>> \in StateOrder
    /\ \A i, j \in 1..Len(path) : path[i] = path[j] => i = j

====
